---- MODULE Spec2Model ----
(***************************************************************************)
(* Model of the instrumented binary heap of src/heap.py (class Heap).      *)
(*                                                                         *)
(* A heap object is the record of its fields (data, min_heap, _mutating,   *)
(* _ops, _verify_sr, _nan_policy, _observer).  The methods are operators   *)
(* on a "thread record": the heap fields plus the control outcome of the   *)
(* call in progress (exc: the exception in flight, ret: the value          *)
(* returned, out: the list returned by nlargest), the                      *)
(* notifications delivered to the observer (ev) and the outcome of every   *)
(* call the observer made back into the heap (calls).                      *)
(* exc is "None" or the kind of the exception: "ValueError" (a key that    *)
(* cannot be computed), "Reentrant" (the RuntimeError of _mutation),       *)
(* "IndexError" (replace on an empty heap), "Incompatible" (the ValueError *)
(* of merge), "VerifyError" (the RuntimeError of a failed verification),   *)
(* "RuntimeError" (an exception wrapped by extend, remove, _remove_at).    *)
(* Every operator passes a record with an exception in flight through      *)
(* unchanged, which is how a Python exception skips the statements that    *)
(* follow it; try/except blocks are written out where the code has them.   *)
(*                                                                         *)
(* Elements are floats: 1..MaxVal and NaN.  key is the identity (the       *)
(* default key=None); a key computation fails exactly for NaN under        *)
(* nan_policy='raise', the same ValueError path a raising key() takes.     *)
(***************************************************************************)
EXTENDS Integers, Sequences, FiniteSets, TLC

\* ---------------------------------------------------------------- bounds
MaxVal == 2        \* elements are NaN and 1..MaxVal
MaxLen == 3        \* storage holds at most MaxLen elements
MaxOps == 3        \* _ops is explored up to MaxOps
MaxItems == 2      \* extend() takes at most MaxItems items
MaxOther == 1      \* merge() takes a heap of at most MaxOther elements
SortLen == 4       \* storage size in the specifications that pop a heap empty
SinkLen == 2       \* storage size while the observer calls back into the heap
SinkOps == 2       \* and the bound on _ops there
PushSinkOps == 4   \* the bound on _ops while the observer calls push
RemoveOps == 4     \* the bound on _ops in the specification of remove
RemoveAtLen == 5   \* storage size in the specification of _remove_at
SiftOps == 6       \* the bound on _ops in the specification of the sift events
MaxRate == 2       \* verify_sample_rate is 0..MaxRate
VerifyOps == 4     \* the bound on _ops in the specification of the verification
HeapifyLen == 5    \* the bound on len(data) in the specification of heapify
RollbackOps == 4   \* the bound on _ops in the specification of the rollbacks
StatsLen == 8      \* the bound on len(data) in the specification of the statistics
RemoveAllLen == 4  \* the bound on len(data) in the specification of the remove loop
UILen == 3         \* the bound on len(data) in the specifications of the UI
UIOps == 5         \* the bound on _ops in the specifications of the UI
SortAllOps == 2    \* the bound on _ops at an action of the user in the specification of Sort All
UIQueue == 2       \* the bound on len(anim_queue) at a key press or a click
QueueOps == 2      \* the bound on _ops at an action of the user in the specification of the queue

\* ------------------------------------------------------------ encodings
NaN == 0           \* float('nan')
NegInf == 0 - 1    \* float('-inf'), the key of NaN under nan_policy='min'
PosInf == MaxVal + 1   \* float('inf'), the key of NaN under nan_policy='max'
None == 0 - 1      \* Python None (default of pop, result of push)

Vals == 0..MaxVal
Policies == {"raise", "min", "max"}

\* 0-based access, as the code indexes self.data
At(h, i) == h.data[i + 1]

SetAt(s, i, v) == [s EXCEPT ![i + 1] = v]

\* ----------------------------------------------------- calls, observers
\* the configuration and storage of a second heap, the argument of merge
OtherHeap(d, m, p, k) == [data |-> d, min_heap |-> m, nan_policy |-> p, key |-> k]

NoOther == OtherHeap(<<>>, TRUE, "raise", "none")

\* a call of a public method: op(v), remove(v, all), extend(items), merge(other)
Call(op, v, all, items, other) ==
    [v |-> v, op |-> op, all |-> all, items |-> items, other |-> other]

NoCall == Call("-", 0, FALSE, <<>>, NoOther)

NoObserver == [kind |-> "none", call |-> NoCall]

LogObserver == [kind |-> "log", call |-> NoCall]

FailObserver == [kind |-> "fail", call |-> NoCall]

\* an observer that, on every notification, makes the call c on the heap
CallObserver(c) == [kind |-> "call", call |-> c]

Ev(name, i, j, ai, aj) == [i |-> i, name |-> name, j |-> j, ai |-> ai, aj |-> aj]

\* raise e: the call returns nothing
Raise(h, e) == [h EXCEPT !.exc = e, !.ret = None]

Ok(h) == h.exc = "None"

\* "except Exception as exc: raise RuntimeError(...) from exc"
Wrap(t, e) == IF Ok(t) THEN t ELSE Raise(t, e)

\* "return v"
Return(t, v) == IF Ok(t) THEN [t EXCEPT !.ret = v] ELSE t

\* ---------------------------------------------------- comparison helpers
\* _normalize_key raises for NaN under 'raise' (so does _k)
KeyRaises(h, a) == a = NaN /\ h.nan_policy = "raise"

\* a normalisation with the two infinities exchanged
NormalizeKeySwapped(h, v) ==
    IF v = NaN
    THEN IF h.nan_policy = "min" THEN PosInf ELSE NegInf
    ELSE v

\* _normalize_key: NaN -> -inf under 'min', +inf otherwise; others unchanged
NormalizeKey(h, v) ==
    IF v = NaN
    THEN IF h.nan_policy = "min" THEN NegInf ELSE PosInf
    ELSE v

\* _k with key=None
K(h, a) == NormalizeKey(h, a)

PreferRaises(h, a, b) == KeyRaises(h, a) \/ KeyRaises(h, b)

\* _prefer, for keys that can be computed
Prefer(h, a, b) ==
    IF h.min_heap THEN K(h, a) < K(h, b) ELSE K(h, a) > K(h, b)

\* ---------------------------------------------------------- verification
\* is_valid_heap: "true", "false", or "raise" when a key computation fails
\* before a violation is found
RECURSIVE ValidScan(_, _)
ValidScan(h, i) ==
    LET n == Len(h.data)
        left == 2 * i + 1
        right == 2 * i + 2
    IN  IF i >= ((n - 2) \div 2) + 1 THEN "true"
        ELSE IF left < n /\ PreferRaises(h, At(h, left), At(h, i)) THEN "raise"
        ELSE IF left < n /\ Prefer(h, At(h, left), At(h, i)) THEN "false"
        ELSE IF right < n /\ PreferRaises(h, At(h, right), At(h, i)) THEN "raise"
        ELSE IF right < n /\ Prefer(h, At(h, right), At(h, i)) THEN "false"
        ELSE ValidScan(h, i + 1)

\* a scan that leaves out the last element of storage
ValidScanButLast(h) ==
    ValidScan([h EXCEPT !.data = SubSeq(@, 1, IF Len(@) = 0 THEN 0 ELSE Len(@) - 1)], 0)

is_valid_heap(h) == ValidScan(h, 0)

\* a call of is_valid_heap(): True is returned as 1, False as 0, and the
\* ValueError of a key that cannot be computed is raised
IsValidHeap(h) ==
    IF is_valid_heap(h) = "raise" THEN Raise(h, "ValueError")
    ELSE [h EXCEPT !.ret = IF is_valid_heap(h) = "true" THEN 1 ELSE 0]

\* _maybe_verify raises (AssertionError, or the ValueError of the scan)
MaybeVerifyRaises(h) ==
    /\ h.verify_sr # 0
    /\ h.ops % h.verify_sr = 0
    /\ is_valid_heap(h) # "true"

\* ------------------------------------------------------- mutation guard
\* a guard that counts the call it rejects
MutationEnterCounting(h) ==
    IF ~Ok(h) THEN h
    ELSE IF h.mutating THEN Raise([h EXCEPT !.ops = @ + 1], "Reentrant")
    ELSE [h EXCEPT !.mutating = TRUE]

\* _mutation up to the yield: the re-entrancy test and the flag
MutationEnter(h) ==
    IF ~Ok(h) THEN h
    ELSE IF h.mutating THEN Raise(h, "Reentrant")
    ELSE [h EXCEPT !.mutating = TRUE]

\* a finally block whose verification failure replaces the error of the body
MutationVerifyOverriding(h1) ==
    IF MaybeVerifyRaises(h1) THEN Raise(h1, "VerifyError") ELSE h1

\* the finally block of _mutation, after the flag and the counter: a
\* verification failure is raised as RuntimeError only when the body raised
\* nothing
MutationVerify(h1) ==
    IF MaybeVerifyRaises(h1) /\ Ok(h1) THEN Raise(h1, "VerifyError") ELSE h1

\* a finally block that releases the flag only when the body raised nothing
MutationExitHolding(h) ==
    MutationVerify([h EXCEPT !.mutating = ~Ok(h), !.ops = @ + 1])

\* a finally block that counts only the calls whose body raised nothing
MutationExitCountingSuccess(h) ==
    MutationVerify([h EXCEPT !.mutating = FALSE,
                             !.ops = IF Ok(h) THEN @ + 1 ELSE @])

\* _mutation from the yield on: the finally block
MutationExit(h) == MutationVerify([h EXCEPT !.mutating = FALSE, !.ops = @ + 1])

\* -------------------------------------------------------- notifications
RECURSIVE Apply(_, _)

\* the observer returned from the call it made on the heap: r is the heap
\* after that call, h1 the heap when the observer was called
ObserverCalled(h1, r) ==
    [r EXCEPT !.observer = h1.observer,
              !.ret = h1.ret,
              !.out = h1.out,
              !.calls = Append(h1.calls,
                               [op |-> h1.observer.call.op,
                                exc |-> r.exc,
                                guarded |-> h1.mutating,
                                same |-> /\ r.data = h1.data
                                         /\ r.min_heap = h1.min_heap
                                         /\ r.ops = h1.ops])]

\* The observer runs on the heap h1 that has recorded the event: a "fail"
\* observer raises, a "call" observer calls back into the heap (it ignores
\* the events its own call delivers) and lets the exception of that call
\* escape.
ObserverRun(h1) ==
    CASE h1.observer.kind = "log" -> h1
      [] h1.observer.kind = "fail" -> [h1 EXCEPT !.exc = "ObserverError"]
      [] h1.observer.kind = "call" ->
            ObserverCalled(h1, Apply([h1 EXCEPT !.observer = LogObserver,
                                                !.ret = None, !.out = <<>>],
                                     h1.observer.call))

\* a variant of _notify without the try/except around the observer call
NotifyPropagating(h, e) ==
    IF ~Ok(h) \/ h.observer.kind = "none" THEN h
    ELSE ObserverRun([h EXCEPT !.ev = Append(@, e)])

\* _notify: no observer, no call; an exception of the observer is swallowed
Notify(h, e) ==
    IF ~Ok(h) \/ h.observer.kind = "none" THEN h
    ELSE [ObserverRun([h EXCEPT !.ev = Append(@, e)]) EXCEPT !.exc = "None"]

\* _notify(name, size=len(self.data))
NotifySize(h, name) == Notify(h, Ev(name, None, None, None, Len(h.data)))

\* ----------------------------------------------------- sift primitives
\* a _swap that reports the values the two positions held before
SwapOldValues(h, i, j) ==
    IF ~Ok(h) THEN h
    ELSE Notify([h EXCEPT !.data = SetAt(SetAt(@, i, At(h, j)), j, At(h, i))],
                Ev("swap", i, j, At(h, i), At(h, j)))

\* _swap
Swap(h, i, j) ==
    IF ~Ok(h) THEN h
    ELSE Notify([h EXCEPT !.data = SetAt(SetAt(@, i, At(h, j)), j, At(h, i))],
                Ev("swap", i, j, At(h, j), At(h, i)))

\* _heapify_up
RECURSIVE HeapifyUp(_, _)
HeapifyUp(h, index) ==
    IF ~Ok(h) \/ index <= 0 THEN h
    ELSE LET parent == (index - 1) \div 2
         IN  IF PreferRaises(h, At(h, index), At(h, parent))
             THEN Raise(h, "ValueError")
             ELSE IF Prefer(h, At(h, index), At(h, parent))
                  THEN HeapifyUp(Swap(h, index, parent), parent)
                  ELSE h

\* a sift-down that never looks at the right child
RECURSIVE HeapifyDownLeftOnly(_, _, _)
HeapifyDownLeftOnly(h, index, n) ==
    LET left == 2 * index + 1
    IN  IF ~Ok(h) THEN h
        ELSE IF left < n /\ PreferRaises(h, At(h, left), At(h, index))
        THEN Raise(h, "ValueError")
        ELSE IF left < n /\ Prefer(h, At(h, left), At(h, index))
        THEN HeapifyDownLeftOnly(Swap(h, index, left), left, n)
        ELSE h

\* a sift-down that takes the right child when the two children tie
RECURSIVE HeapifyDownRightTies(_, _, _)
HeapifyDownRightTies(h, index, n) ==
    LET left == 2 * index + 1
        right == 2 * index + 2
    IN  IF ~Ok(h) THEN h
        ELSE IF left < n /\ PreferRaises(h, At(h, left), At(h, index))
        THEN Raise(h, "ValueError")
        ELSE LET best1 == IF left < n /\ Prefer(h, At(h, left), At(h, index))
                          THEN left ELSE index
             IN  IF right < n /\ PreferRaises(h, At(h, right), At(h, best1))
                 THEN Raise(h, "ValueError")
                 ELSE LET best == IF /\ right < n
                                     /\ Prefer(h, At(h, right), At(h, index))
                                     /\ ~Prefer(h, At(h, best1), At(h, right))
                                  THEN right ELSE best1
                      IN  IF best = index THEN h
                          ELSE HeapifyDownRightTies(Swap(h, index, best), best, n)

\* one pass of the loop of _heapify_down; n is len(self.data) at entry
RECURSIVE HeapifyDownLoop(_, _, _)
HeapifyDownLoop(h, index, n) ==
    LET left == 2 * index + 1
        right == 2 * index + 2
    IN  IF ~Ok(h) THEN h
        ELSE IF left < n /\ PreferRaises(h, At(h, left), At(h, index))
        THEN Raise(h, "ValueError")
        ELSE LET best1 == IF left < n /\ Prefer(h, At(h, left), At(h, index))
                          THEN left ELSE index
             IN  IF right < n /\ PreferRaises(h, At(h, right), At(h, best1))
                 THEN Raise(h, "ValueError")
                 ELSE LET best == IF right < n /\ Prefer(h, At(h, right), At(h, best1))
                                  THEN right ELSE best1
                      IN  IF best = index THEN h
                          ELSE HeapifyDownLoop(Swap(h, index, best), best, n)

\* a sift-down that stops one level below index
HeapifyDownOneLevel(h, index) ==
    IF ~Ok(h) THEN h
    ELSE HeapifyDownLoop(h, index,
                         IF Len(h.data) < 2 * index + 3 THEN Len(h.data)
                         ELSE 2 * index + 3)

\* _heapify_down
HeapifyDown(h, index) ==
    IF ~Ok(h) THEN h ELSE HeapifyDownLoop(h, index, Len(h.data))

\* ----------------------------------------------------------- PUBLIC API
\* an except block of push that restores nothing
PushExceptNoRollback(h4, old_data, value) ==
    IF Ok(h4) THEN h4
    ELSE Raise(Notify([h4 EXCEPT !.exc = "None"],
                      Ev("insert_error", None, None, value, None)),
               h4.exc)

\* push, the except block around _heapify_up: roll back, notify
\* insert_error, re-raise
PushExcept(h4, old_data, value) ==
    IF Ok(h4) THEN h4
    ELSE Raise(Notify([h4 EXCEPT !.data = old_data, !.exc = "None"],
                      Ev("insert_error", None, None, value, None)),
               h4.exc)

\* push from the notification of "insert" on: the sift-up and push_done
PushSift(h3, n_before, old_data, value) ==
    IF ~Ok(h3) THEN h3
    ELSE IF n_before = 0 THEN NotifySize(h3, "push_done")
    ELSE NotifySize(PushExcept(HeapifyUp(h3, n_before), old_data, value), "push_done")

\* push from the snapshot on: old_data = self.data.copy(), append, notify
PushAppend(h1, n_before, value) ==
    IF ~Ok(h1) THEN h1
    ELSE PushSift(Notify([h1 EXCEPT !.data = Append(@, value)],
                         Ev("insert", n_before, None, value, None)),
                  n_before, h1.data, value)

\* the body of push inside the guard
PushBody(g, value) ==
    PushAppend(Notify(g, Ev("insert_start", Len(g.data), None, value, None)),
               Len(g.data), value)

\* a push that computes the key only after it took the guard
PushLateValidation(h, value) ==
    IF ~Ok(MutationEnter(h)) THEN MutationEnter(h)
    ELSE IF KeyRaises(h, value) THEN MutationExit(Raise(MutationEnter(h), "ValueError"))
    ELSE MutationExit(Return(PushBody(MutationEnter(h), value), None))

\* push: eager validation of the key, then the guarded mutation
Push(h, value) ==
    IF KeyRaises(h, value) THEN Raise(h, "ValueError")
    ELSE IF ~Ok(MutationEnter(h)) THEN MutationEnter(h)
    ELSE MutationExit(Return(PushBody(MutationEnter(h), value), None))

\* pop after pop_root: last = self.data.pop(); if storage is not empty the
\* last element moves to the root and is sifted down
PopMove(h2) ==
    IF ~Ok(h2) THEN h2
    ELSE IF Len(h2.data) = 1 THEN [h2 EXCEPT !.data = <<>>]
    ELSE HeapifyDown(
            Notify([h2 EXCEPT !.data = SetAt(SubSeq(@, 1, Len(@) - 1), 0, @[Len(@)])],
                   Ev("move", Len(h2.data) - 1, 0, h2.data[Len(h2.data)], None)),
            0)

\* a pop that returns the element its sift left at the root
PopDoneNewRoot(h3, root) ==
    Return(Notify(h3, Ev("pop_done", None, None, root, Len(h3.data))),
           IF h3.data # <<>> THEN At(h3, 0) ELSE root)

\* pop: notify pop_done, return root
PopDone(h3, root) ==
    Return(Notify(h3, Ev("pop_done", None, None, root, Len(h3.data))), root)

\* a try block of pop that notifies pop_root after the sift-down
PopTryRootLate(h1) ==
    PopDone(Notify(PopMove(h1), Ev("pop_root", None, None, At(h1, 0), Len(h1.data))),
            At(h1, 0))

\* the try block of pop
PopTry(h1) ==
    PopDone(PopMove(Notify(h1, Ev("pop_root", None, None, At(h1, 0), Len(h1.data)))),
            At(h1, 0))

\* the except block of pop: roll back, notify pop_error (its own failure
\* ignored), re-raise the original
PopExcept(t, old_data) ==
    IF Ok(t) THEN t
    ELSE Raise([Notify([t EXCEPT !.data = old_data, !.exc = "None"],
                       Ev("pop_error", None, None, None, Len(old_data)))
                    EXCEPT !.exc = "None"],
               t.exc)

\* pop of a heap that is not empty, from pop_start on
PopFrom(h1, old_data) ==
    IF ~Ok(h1) THEN h1 ELSE PopExcept(PopTry(h1), old_data)

\* the body of pop inside the guard
PopBody(g, default) ==
    IF g.data = <<>>
    THEN Return(Notify(g, Ev("pop_empty", None, None, None, 0)), default)
    ELSE PopFrom(NotifySize(g, "pop_start"), g.data)

\* pop
Pop(h, default) ==
    IF ~Ok(MutationEnter(h)) THEN MutationEnter(h)
    ELSE MutationExit(PopBody(MutationEnter(h), default))

\* a peek that reads the last element of storage
PeekLast(h) == IF h.data # <<>> THEN At(h, Len(h.data) - 1) ELSE None

\* peek
Peek(h) == IF h.data # <<>> THEN At(h, 0) ELSE None

\* the except block of clear: roll back, notify clear_error, re-raise
ClearExcept(t, old_data) ==
    IF Ok(t) THEN t
    ELSE Raise([Notify([t EXCEPT !.data = old_data, !.exc = "None"],
                       Ev("clear_error", None, None, None, 0))
                    EXCEPT !.exc = "None"],
               t.exc)

\* the body of clear inside the guard
ClearBody(g) ==
    ClearExcept(Notify([g EXCEPT !.data = <<>>],
                       Ev("clear", None, None, None, Len(g.data))),
                g.data)

\* clear
Clear(h) ==
    IF h.data = <<>> THEN Notify(h, Ev("clear", None, None, None, 0))
    ELSE IF ~Ok(MutationEnter(h)) THEN MutationEnter(h)
    ELSE MutationExit(ClearBody(MutationEnter(h)))

\* the loop of heapify: i from (n - 2) // 2 down to 0
RECURSIVE HeapifyFrom(_, _)
HeapifyFrom(h, i) ==
    IF ~Ok(h) \/ i < 0 THEN h
    ELSE HeapifyFrom(HeapifyDown(h, i), i - 1)

\* a heapify that sifts the root only
HeapifyRootOnly(h) ==
    IF ~Ok(MutationEnter(h)) THEN MutationEnter(h)
    ELSE MutationExit(Notify(IF Len(h.data) >= 2 THEN HeapifyDown(MutationEnter(h), 0)
                             ELSE MutationEnter(h),
                             Ev("heapify_done", None, None, None, Len(h.data))))

\* heapify
Heapify(h) ==
    IF ~Ok(MutationEnter(h)) THEN MutationEnter(h)
    ELSE MutationExit(Notify(HeapifyFrom(MutationEnter(h), (Len(h.data) - 2) \div 2),
                             Ev("heapify_done", None, None, None, Len(h.data))))

\* an end of extend that keeps the appended items when heapify fails
ExtendDoneNoRollback(t, backup, start_size) ==
    IF Ok(t)
    THEN Notify(t, Ev("extend", None, None, None, Len(t.data) - start_size))
    ELSE Raise(t, "RuntimeError")

\* extend of several items after heapify(): notify, or restore the backup
\* and raise RuntimeError
ExtendDone(t, backup, start_size) ==
    IF Ok(t)
    THEN Notify(t, Ev("extend", None, None, None, Len(t.data) - start_size))
    ELSE Raise([t EXCEPT !.data = backup], "RuntimeError")

\* extend; a single item is pushed, any exception wrapped in RuntimeError
Extend(h, items) ==
    IF items = <<>> THEN h
    ELSE IF Len(items) = 1
    THEN Wrap(Notify(Push(h, items[1]), Ev("extend", None, None, None, 1)),
              "RuntimeError")
    ELSE ExtendDone(Heapify([h EXCEPT !.data = @ \o items]), h.data, Len(h.data))

\* a toggle_mode that flips the mode and rebuilds nothing
ToggleModeNoRebuild(h) ==
    Notify([h EXCEPT !.min_heap = ~@], Ev("toggle_mode", None, None, None, None))

\* toggle_mode
ToggleMode(h) ==
    Heapify(Notify([h EXCEPT !.min_heap = ~@], Ev("toggle_mode", None, None, None, None)))

\* a set_mode that rebuilds the heap whatever the mode was
SetModeAlways(h, min_heap) ==
    Heapify(Notify([h EXCEPT !.min_heap = min_heap],
                   Ev("set_mode", None, None, None, None)))

\* set_mode
SetMode(h, min_heap) ==
    IF h.min_heap # min_heap
    THEN Heapify(Notify([h EXCEPT !.min_heap = min_heap],
                        Ev("set_mode", None, None, None, None)))
    ELSE h

\* Python == on floats: NaN equals nothing, itself included
PyEq(a, b) == a # NaN /\ b # NaN /\ a = b

\* Python < on floats: every comparison with NaN is False
PyLess(a, b) == a # NaN /\ b # NaN /\ a < b

\* _remove_at after the last element was moved to index: the direction of
\* the sift is chosen with the elements' own <
RemoveAtSift(h1, index) ==
    IF index > 0 /\ PyLess(At(h1, index), At(h1, (index - 1) \div 2))
    THEN HeapifyUp(h1, index)
    ELSE HeapifyDown(h1, index)

\* _remove_at: notify remove_at; every exception is wrapped
RemoveAtDone(h2, index) ==
    Wrap(Notify(h2, Ev("remove_at", index, None, None, Len(h2.data))), "RuntimeError")

\* the body of _remove_at inside the guard
RemoveAtBody(g, index) ==
    IF ~(0 <= index /\ index < Len(g.data)) THEN g
    ELSE IF index = Len(g.data) - 1
    THEN RemoveAtDone([g EXCEPT !.data = SubSeq(@, 1, Len(@) - 1)], index)
    ELSE RemoveAtDone(
            RemoveAtSift([g EXCEPT !.data = SetAt(SubSeq(@, 1, Len(@) - 1),
                                                  index, @[Len(@)])],
                         index),
            index)

\* _remove_at
RemoveAt(h, index) ==
    IF ~Ok(MutationEnter(h)) THEN MutationEnter(h)
    ELSE MutationExit(RemoveAtBody(MutationEnter(h), index))

\* the while loop of remove; ret carries the count of removed elements
RECURSIVE RemoveLoop(_, _, _, _, _)

\* remove after a call of _remove_at: every exception is wrapped, and so is
\* a storage that did not shrink
RemoveNext(t, before, value, remove_all, i, removed) ==
    IF ~Ok(t) \/ Len(t.data) >= before THEN Raise(t, "RuntimeError")
    ELSE IF ~remove_all THEN [t EXCEPT !.ret = removed + 1]
    ELSE RemoveLoop(t, value, remove_all, i, removed + 1)

RemoveLoop(h, value, remove_all, i, removed) ==
    IF ~(i < Len(h.data)) THEN [h EXCEPT !.ret = removed]
    ELSE IF PyEq(At(h, i), value)
    THEN RemoveNext(RemoveAt(h, i), Len(h.data), value, remove_all, i, removed)
    ELSE RemoveLoop(h, value, remove_all, i + 1, removed)

\* the end of remove: remove_value is notified when something was removed
RemoveDone(r, value) ==
    IF Ok(r) /\ r.ret # 0
    THEN Wrap(Notify(r, Ev("remove_value", None, None, value, r.ret)), "RuntimeError")
    ELSE r

\* remove
Remove(h, value, all) == RemoveDone(RemoveLoop(h, value, all, 0, 0), value)

\* the root replacement shared by pushpop and replace
ReplaceRoot(g, value) ==
    Return(HeapifyDown(Notify([g EXCEPT !.data = SetAt(@, 0, value)],
                              Ev("replace_root", None, None, At(g, 0), value)),
                       0),
           At(g, 0))

\* the body of pushpop inside the guard
PushpopBody(g, value) ==
    IF g.data = <<>> THEN [g EXCEPT !.ret = value]
    ELSE IF PreferRaises(g, value, At(g, 0)) THEN Raise(g, "ValueError")
    ELSE IF Prefer(g, value, At(g, 0)) THEN [g EXCEPT !.ret = value]
    ELSE ReplaceRoot(g, value)

\* pushpop
Pushpop(h, value) ==
    IF ~Ok(MutationEnter(h)) THEN MutationEnter(h)
    ELSE MutationExit(PushpopBody(MutationEnter(h), value))

\* replace
Replace(h, value) ==
    IF h.data = <<>> THEN Raise(h, "IndexError")
    ELSE IF ~Ok(MutationEnter(h)) THEN MutationEnter(h)
    ELSE MutationExit(ReplaceRoot(MutationEnter(h), value))

\* the body of merge inside the guard: heapify() is called with the guard held
MergeBody(g, other) ==
    Notify(Heapify([g EXCEPT !.data = @ \o other.data]),
           Ev("merge", None, None, Len(other.data), Len(g.data)))

\* a merge that does not compare the configurations
MergeUnchecked(h, other) ==
    IF other.data = <<>> THEN h
    ELSE IF ~Ok(MutationEnter(h)) THEN MutationEnter(h)
    ELSE MutationExit(MergeBody(MutationEnter(h), other))

\* merge; self.key is None
Merge(h, other) ==
    IF \/ h.min_heap # other.min_heap
       \/ other.key # "none"
       \/ h.nan_policy # other.nan_policy
    THEN Raise(h, "Incompatible")
    ELSE IF other.data = <<>> THEN h
    ELSE IF ~Ok(MutationEnter(h)) THEN MutationEnter(h)
    ELSE MutationExit(MergeBody(MutationEnter(h), other))

\* an order of nlargest that is not reversed in Min mode
SortsBeforeAscending(h, a, b) == K(h, a) < K(h, b)

\* sorted(..., key=self._k, reverse=self.min_heap): a is placed before b
SortsBefore(h, a, b) ==
    IF h.min_heap THEN K(h, a) > K(h, b) ELSE K(h, a) < K(h, b)

\* the stable insertion of x into the sorted sequence s, from position i on
RECURSIVE SortedInsert(_, _, _, _)
SortedInsert(h, s, x, i) ==
    IF i > Len(s) THEN Append(s, x)
    ELSE IF SortsBefore(h, x, s[i])
    THEN SubSeq(s, 1, i - 1) \o <<x>> \o SubSeq(s, i, Len(s))
    ELSE SortedInsert(h, s, x, i + 1)

\* sorted(self.data, ...): stable, so elements of equal keys keep their order
RECURSIVE Sorted(_, _, _)
Sorted(h, s, k) ==
    IF k > Len(h.data) THEN s
    ELSE Sorted(h, SortedInsert(h, s, At(h, k - 1), 1), k + 1)

\* the slice sorted_data[: min(n, len(sorted_data))]
Prefix(s, n) == SubSeq(s, 1, IF n < Len(s) THEN n ELSE Len(s))

\* nlargest: the result is returned in out; a key that cannot be computed
\* is raised as ValueError
Nlargest(h, n) ==
    IF n <= 0 THEN [h EXCEPT !.out = <<>>]
    ELSE IF \E i \in 1..Len(h.data) : KeyRaises(h, h.data[i])
    THEN Raise(h, "ValueError")
    ELSE [h EXCEPT !.out = Prefix(Sorted(h, <<>>, 1), n)]

\* next(it) on an open generator of destructive_iter, "while self.data:
\* yield self.pop()": the generator runs from where it is suspended to its
\* next yield and returns to the caller; the yielded value is in ret
NextItem(h) ==
    IF h.data = <<>> THEN Raise(h, "StopIteration") ELSE Pop(h, None)

\* -------------------------------------------------------------- metrics
\* int(math.log2(n)) for n >= 1: the float logarithm, truncated
RECURSIVE FloorLog2(_)
FloorLog2(n) == IF n < 2 THEN 0 ELSE 1 + FloorLog2(n \div 2)

\* the bitwise and of two naturals
RECURSIVE BitAnd(_, _)
BitAnd(a, b) ==
    IF a = 0 \/ b = 0 THEN 0
    ELSE (a % 2) * (b % 2) + 2 * BitAnd(a \div 2, b \div 2)

\* a depth that counts the levels below the root
DepthBelowRoot(h) == IF h.data = <<>> THEN 0 ELSE FloorLog2(Len(h.data))

\* depth
Depth(h) == IF h.data = <<>> THEN 0 ELSE FloorLog2(Len(h.data)) + 1

\* is_perfect: True is returned as 1, False as 0
IsPerfect(h) == IF BitAnd(Len(h.data), Len(h.data) + 1) = 0 THEN 1 ELSE 0

\* a call of a public method on the heap
Apply(h, c) ==
    CASE c.op = "push" -> Push(h, c.v)
      [] c.op = "pop" -> Pop(h, None)
      [] c.op = "clear" -> Clear(h)
      [] c.op = "extend" -> Extend(h, c.items)
      [] c.op = "toggle_mode" -> ToggleMode(h)
      [] c.op = "set_mode" -> SetMode(h, c.all)
      [] c.op = "heapify" -> Heapify(h)
      [] c.op = "remove" -> Remove(h, c.v, c.all)
      [] c.op = "pushpop" -> Pushpop(h, c.v)
      [] c.op = "replace" -> Replace(h, c.v)
      [] c.op = "merge" -> Merge(h, c.other)
      [] c.op = "_remove_at" -> RemoveAt(h, c.v)
      [] c.op = "nlargest" -> Nlargest(h, c.v)
      [] c.op = "peek" -> [h EXCEPT !.ret = Peek(h)]
      [] c.op = "is_valid_heap" -> IsValidHeap(h)
      [] c.op = "_heapify_down" -> HeapifyDown(h, c.v)
      [] c.op = "depth" -> [h EXCEPT !.ret = Depth(h)]
      [] c.op = "is_perfect" -> [h EXCEPT !.ret = IsPerfect(h)]

\* ------------------------------------------------------------- the state
VARIABLES
    data,        \* self.data
    min_heap,    \* self.min_heap
    mutating,    \* self._mutating
    ops,         \* self._ops
    verify_sr,   \* self._verify_sr
    nan_policy,  \* self._nan_policy
    observer,    \* self._observer
    lastcall,    \* the call the program made last, and its outcome
    ev,          \* the notifications the observer received during that call
    calls,       \* the outcomes of the calls the observer made during that call
    scan,        \* the position of a remove(value, all=True) that is under way
    ui,          \* the fields of the UI object that owns the heap
    gen          \* the generator of destructive_iter the caller holds

vars ==
    <<data, min_heap, mutating, ops, verify_sr, nan_policy, observer, lastcall, ev,
      calls, scan, ui, gen>>

\* no remove is under way
NoScan == [i |-> 0, value |-> 0, removed |-> 0, active |-> FALSE, size |-> 0]

\* the caller holds no generator. A generator is "open" from its creation
\* (suspended before its first statement or at its yield) until it ends
\* ("done"); out holds the values it has yielded, start the storage at its
\* creation
NoGen == [out |-> <<>>, state |-> "none", start |-> <<>>]

\* an entry of anim_queue: the visual type and the payload of the event
Anim(type, e) == [e |-> e, type |-> type]

\* current_anim = None
NoAnim == Anim("none", Ev("-", None, None, None, None))

\* UI.__init__: the animation and sorting fields; iter tells whether
\* self._destructive_iter exists, message is the text of temp_message,
\* highlight_pair is the set of the two highlighted positions ({} for None),
\* last_values is _last_values_snapshot
NewUI ==
    [anim_queue |-> <<>>, current_anim |-> NoAnim, highlight_pair |-> {},
     destructive_iterating |-> FALSE, sorted_items |-> <<>>, iter |-> FALSE,
     message |-> "none", last_values |-> <<>>]

\* the heap object at the start of a call
Self ==
    [data |-> data, min_heap |-> min_heap, nan_policy |-> nan_policy,
     exc |-> "None", ret |-> None, verify_sr |-> verify_sr, ops |-> ops,
     mutating |-> mutating, observer |-> observer, out |-> <<>>,
     calls |-> <<>>, ev |-> <<>>]

SeqsUpTo(S, n) == UNION {[1..k -> S] : k \in 0..n}

\* the heaps given to merge to the heap h: of the same configuration, or
\* differing in the mode, the NaN policy or the key; their storage passes
\* is_valid_heap
Others(h) ==
    {o \in {OtherHeap(d, m, p, k) : d \in SeqsUpTo(Vals, MaxOther), m \in BOOLEAN,
                                    p \in Policies, k \in {"none", "fn"}} :
        /\ (IF o.min_heap # h.min_heap THEN 1 ELSE 0)
            + (IF o.nan_policy # h.nan_policy THEN 1 ELSE 0)
            + (IF o.key # "none" THEN 1 ELSE 0) <= 1
        /\ (o.nan_policy # h.nan_policy => o.nan_policy = "raise" \/ h.nan_policy = "raise")
        /\ (o.min_heap # h.min_heap \/ o.nan_policy # h.nan_policy \/ o.key # "none"
                => o.data \in [1..MaxOther -> {1}])
        /\ is_valid_heap(o) = "true"}

\* the calls a program can make: op(v), set_mode(b), remove(v, all),
\* extend(items) with at most n items, merge(other)
ValueCalls(op) == {Call(op, v, FALSE, <<>>, NoOther) : v \in Vals}

PlainCall(op) == Call(op, 0, FALSE, <<>>, NoOther)

SetModeCalls == {Call("set_mode", 0, b, <<>>, NoOther) : b \in BOOLEAN}

RemoveCalls == {Call("remove", v, b, <<>>, NoOther) : v \in Vals, b \in BOOLEAN}

ExtendCalls(n) == {Call("extend", 0, FALSE, items, NoOther) : items \in SeqsUpTo(Vals, n)}

MergeCalls(h) == {Call("merge", 0, FALSE, <<>>, o) : o \in Others(h)}

CallsOf(op, h) ==
    CASE op \in {"push", "pushpop", "replace"} -> ValueCalls(op)
      [] op = "set_mode" -> SetModeCalls
      [] op = "remove" -> RemoveCalls
      [] op = "extend" -> ExtendCalls(MaxItems)
      [] op = "merge" -> MergeCalls(h)
      [] OTHER -> {PlainCall(op)}

MutatingOps ==
    {"push", "pop", "clear", "extend", "toggle_mode", "set_mode", "heapify",
     "remove", "pushpop", "replace", "merge"}

Calls(h) == UNION {CallsOf(op, h) : op \in MutatingOps}

\* the state after the call c returned or raised with the thread record r;
\* the call is explored only while storage stays within L elements and the
\* counter within N
Effect(c, r, L, N) ==
    /\ Len(r.data) <= L
    /\ r.ops <= N
    /\ data' = r.data
    /\ min_heap' = r.min_heap
    /\ mutating' = r.mutating
    /\ ops' = r.ops
    /\ lastcall' = [call |-> c, exc |-> r.exc, ret |-> r.ret, out |-> r.out]
    /\ ev' = r.ev
    /\ calls' = r.calls
    /\ UNCHANGED <<verify_sr, nan_policy, observer>>

\* a call made on a heap directly: no remove under way, the UI not involved
Done(c, r, L, N) == Effect(c, r, L, N) /\ UNCHANGED <<scan, ui, gen>>

Do(c, L, N) == Done(c, Apply(Self, c), L, N)

Step(op, L, N) == \E c \in CallsOf(op, Self) : Do(c, L, N)

NoLast == [call |-> NoCall, exc |-> "None", ret |-> None, out |-> <<>>]

\* it = destructive_iter(): the generator object is created, none of its
\* statements runs; an iterator the caller held before is dropped
IterStart ==
    /\ gen' = [out |-> <<>>, state |-> "open", start |-> data]
    /\ lastcall' = [NoLast EXCEPT !.call = PlainCall("destructive_iter")]
    /\ ev' = <<>>
    /\ calls' = <<>>
    /\ UNCHANGED <<data, min_heap, mutating, ops, verify_sr, nan_policy, observer,
                   scan, ui>>

\* the generator after next(it) ended as r: it has yielded the value and is
\* suspended again, or it has ended (by StopIteration or by the exception of
\* pop)
Resumed(g, r) ==
    IF Ok(r) THEN [g EXCEPT !.out = Append(@, r.ret)] ELSE [g EXCEPT !.state = "done"]

\* next(it): a generator that has ended raises StopIteration at once
IterNext(L, N) ==
    /\ gen.state # "none"
    /\ \E r \in {IF gen.state = "done" THEN Raise(Self, "StopIteration")
                  ELSE NextItem(Self)} :
          /\ Effect(PlainCall("next"), r, L, N)
          /\ gen' = Resumed(gen, r)
    /\ UNCHANGED <<scan, ui>>

\* set_observer
SetObserver(O) ==
    /\ \E fn \in O : observer' = fn /\ fn # observer
    /\ lastcall' = [NoLast EXCEPT !.call = PlainCall("set_observer")]
    /\ ev' = <<>>
    /\ calls' = <<>>
    /\ UNCHANGED <<data, min_heap, mutating, ops, verify_sr, nan_policy, scan, ui, gen>>

\* Heap(min_heap, key=None, observer, verify_sample_rate, nan_policy)
New(O, R) ==
    /\ data = <<>>
    /\ min_heap \in BOOLEAN
    /\ mutating = FALSE
    /\ ops = 0
    /\ verify_sr \in R
    /\ nan_policy \in Policies
    /\ observer \in O
    /\ lastcall = NoLast
    /\ ev = <<>>
    /\ calls = <<>>
    /\ scan = NoScan
    /\ gen = NoGen
    /\ ui = NewUI

\* ------------------------------------------- Spec: every public operation
PlainObservers == {NoObserver, LogObserver}

Init == New(PlainObservers, {0})

DoPush == Step("push", MaxLen, MaxOps)

DoPop == Step("pop", MaxLen, MaxOps)

DoClear == Step("clear", MaxLen, MaxOps)

DoExtend == Step("extend", MaxLen, MaxOps)

DoToggleMode == Step("toggle_mode", MaxLen, MaxOps)

DoSetMode == Step("set_mode", MaxLen, MaxOps)

DoHeapify == Step("heapify", MaxLen, MaxOps)

DoRemove == Step("remove", MaxLen, MaxOps)

DoPushpop == Step("pushpop", MaxLen, MaxOps)

DoReplace == Step("replace", MaxLen, MaxOps)

DoMerge == Step("merge", MaxLen, MaxOps)

DoSetObserver == SetObserver(PlainObservers)

Next ==
    \/ DoPush
    \/ DoPop
    \/ DoClear
    \/ DoExtend
    \/ DoToggleMode
    \/ DoSetMode
    \/ DoHeapify
    \/ DoRemove
    \/ DoPushpop
    \/ DoReplace
    \/ DoMerge
    \/ DoSetObserver

Spec == Init /\ [][Next]_vars

\* --------------------------------------------------- helpers of the claims
Count(s, v) == Cardinality({i \in 1..Len(s) : s[i] = v})

\* the same elements, each as often
SameMultiset(s, t) == \A v \in Vals : Count(s, v) = Count(t, v)

\* s without one occurrence of v is t
MinusOne(s, v, t) ==
    /\ Count(s, v) = Count(t, v) + 1
    /\ \A w \in Vals \ {v} : Count(s, w) = Count(t, w)

AllKeysValid(h, s) == \A i \in 1..Len(s) : ~KeyRaises(h, s[i])

\* ------------------------------- SpecInv: the operations named by claim C1
InitInv == New({NoObserver}, {0})

NextInv ==
    \/ DoPush
    \/ DoPop
    \/ DoRemove
    \/ DoHeapify
    \/ DoToggleMode
    \/ DoMerge

SpecInv == InitInv /\ [][NextInv]_vars

\* C1: after every push, pop, remove, heapify, toggle_mode and merge,
\* is_valid_heap() is true.
C1_ValidAfterEveryOperation == is_valid_heap(Self) = "true"

\* ------------------- SpecPushPop: push elements, then pop the heap empty
SortPush == Step("push", SortLen, 2 * SortLen)

PushPopStart == IterStart

PushPopNext == IterNext(SortLen, 2 * SortLen)

NextPushPop ==
    \/ SortPush
    \/ PushPopStart
    \/ PushPopNext

SpecPushPop == InitInv /\ [][NextPushPop]_vars

\* the keys of s never decrease (Min mode), never increase (Max mode)
KeysInOrder(h, s) ==
    \A i, j \in 1..Len(s) :
        i < j => IF h.min_heap THEN K(h, s[i]) <= K(h, s[j]) ELSE K(h, s[i]) >= K(h, s[j])

\* since the generator was created, nothing but its own pops has changed
\* storage: every element yielded has left storage, none was pushed
Uninterrupted == gen.state # "none" /\ Len(gen.out) + Len(data) = Len(gen.start)

\* C2: popping a heap built by pushes until it is empty, with no push
\* between the pops, succeeds and yields keys that never decrease in Min
\* mode and never increase in Max mode; the pops end when storage is empty.
C2_PopAllInOrder ==
    Uninterrupted =>
        /\ lastcall.call.op = "next" => lastcall.exc \in {"None", "StopIteration"}
        /\ KeysInOrder(Self, gen.out)
        /\ gen.state = "done" => data = <<>>

\* SortLen pushes, then SortLen pops that returned different keys, and
\* the StopIteration that ends the iteration
C2_Witness ==
    /\ Uninterrupted
    /\ gen.state = "done"
    /\ lastcall.exc = "StopIteration"
    /\ Len(gen.out) = SortLen
    /\ ops = 2 * SortLen
    /\ gen.out[1] # gen.out[SortLen]
    /\ gen.out[2] # gen.out[3]

\* ------------- SpecExtendPop: extend a new heap, then pop it empty
\* extend on a heap that was never used
SortExtend == ops = 0 /\ \E c \in ExtendCalls(SortLen) : Do(c, SortLen, SortLen + 1)

ExtendStart == IterStart

ExtendNext == IterNext(SortLen, SortLen + 1)

NextExtendPop ==
    \/ SortExtend
    \/ ExtendStart
    \/ ExtendNext

SpecExtendPop == InitInv /\ [][NextExtendPop]_vars

\* C3: extend(items) on an empty heap, for items whose keys can be computed,
\* succeeds and stores exactly the items; popping until empty then returns
\* exactly the stored elements, in the order of the mode: at every yield the
\* yielded values and the rest of storage are the elements stored when the
\* iteration began.
C3_ExtendThenPopAll ==
    /\ [][(lastcall'.call.op = "extend" /\ AllKeysValid(Self, lastcall'.call.items)) =>
            /\ lastcall'.exc = "None"
            /\ SameMultiset(data', lastcall'.call.items)]_vars
    /\ [](Uninterrupted =>
            /\ lastcall.call.op = "next" => lastcall.exc \in {"None", "StopIteration"}
            /\ SameMultiset(gen.out \o data, gen.start)
            /\ KeysInOrder(Self, gen.out)
            /\ gen.state = "done" => data = <<>>)

\* one extend of SortLen items, then SortLen pops that returned different keys
C3_Witness ==
    /\ Uninterrupted
    /\ gen.state = "done"
    /\ Len(gen.out) = SortLen
    /\ Len(gen.start) = SortLen
    /\ ops = SortLen + 1
    /\ gen.out[1] # gen.out[SortLen]
    /\ gen.out[2] # gen.out[3]

\* C4: on a heap that passes is_valid_heap, pushpop(v) returns the same
\* value (or fails alike) and leaves the same multiset of elements, in heap
\* order, as push(v) followed by pop() on a copy.
C4_PushpopIsPushThenPop ==
    is_valid_heap(Self) = "true" =>
        \A v \in Vals :
            LET a == Pushpop(Self, v)
                b == Pop(Push(Self, v), None)
            IN  /\ (a.exc = "None") = (b.exc = "None")
                /\ a.ret = b.ret
                /\ SameMultiset(a.data, b.data)
                /\ is_valid_heap(a) = "true"

\* ------------- SpecSink: the observer calls back into the heap on every
\* notification, always with the same call
SinkOthers == {OtherHeap(<<1>>, m, p, "none") : m \in BOOLEAN, p \in Policies}

SinkCalls ==
    UNION {CallsOf(op, Self) : op \in MutatingOps \ {"merge"}}
        \cup {Call("merge", 0, FALSE, <<>>, o) : o \in SinkOthers}

SinkObservers == {CallObserver(c) : c \in SinkCalls}

InitSink == New(SinkObservers, {0})

SinkPush == Step("push", SinkLen, SinkOps)

SinkPop == Step("pop", SinkLen, SinkOps)

SinkExtend == Step("extend", SinkLen, SinkOps)

SinkHeapify == Step("heapify", SinkLen, SinkOps)

SinkReplace == Step("replace", SinkLen, SinkOps)

NextSink ==
    \/ SinkPush
    \/ SinkPop
    \/ SinkExtend
    \/ SinkHeapify
    \/ SinkReplace

SpecSink == InitSink /\ [][NextSink]_vars

\* ------------- SpecSinkPush: the observer calls push on every notification
PushSinkObservers == {CallObserver(c) : c \in ValueCalls("push")}

InitSinkPush == New(PushSinkObservers, {0})

PushSinkPush == Step("push", SinkLen, PushSinkOps)

PushSinkPop == Step("pop", SinkLen, PushSinkOps)

PushSinkReplace == Step("replace", SinkLen, PushSinkOps)

NextSinkPush ==
    \/ PushSinkPush
    \/ PushSinkPop
    \/ PushSinkReplace

SpecSinkPush == InitSinkPush /\ [][NextSinkPush]_vars

\* the outcome of the call that was just made, had the observer only
\* listened
Listening(c) == Apply([Self EXCEPT !.observer = LogObserver], c)

\* C5 as stated: every push the sink makes during a push fails with the
\* re-entrancy error, and the outer push succeeds with the storage it has
\* when the sink makes no call.
C5_Original ==
    [][(/\ lastcall'.call.op = "push"
        /\ observer.call.op = "push"
        /\ calls' # <<>>) =>
            /\ \A i \in 1..Len(calls') : calls'[i].exc = "Reentrant"
            /\ lastcall'.exc = "None"
            /\ data' = Listening(lastcall'.call).data]_vars

\* C5: every push the sink makes during a push fails and changes nothing:
\* with the re-entrancy error when the key of its value can be computed,
\* with the error of the key otherwise; the outer push ends as it does when
\* the sink makes no call, with the same storage.
C5_SinkPushRejected ==
    [][(/\ lastcall'.call.op = "push"
        /\ observer.call.op = "push"
        /\ calls' # <<>>) =>
            /\ \A i \in 1..Len(calls') :
                    /\ calls'[i].guarded
                    /\ calls'[i].same
                    /\ calls'[i].exc = IF KeyRaises(Self, observer.call.v)
                                       THEN "ValueError" ELSE "Reentrant"
            /\ lastcall'.exc = Listening(lastcall'.call).exc
            /\ data' = Listening(lastcall'.call).data]_vars

\* a push that sifted up: the sink's push was rejected at insert_start,
\* insert, swap and push_done, and the push succeeded
C5_Witness ==
    /\ lastcall.call.op = "push"
    /\ observer.call.op = "push"
    /\ lastcall.exc = "None"
    /\ Len(calls) >= 4
    /\ \A i \in 1..Len(calls) : calls[i].exc = "Reentrant"
    /\ \E i \in 1..Len(ev) : ev[i].name = "swap"

\* C6: every call of push, pop, heapify, extend, toggle_mode, set_mode,
\* remove, pushpop, replace or merge the sink makes while the guard is held
\* is rejected and leaves storage, mode and counter as they were.
C6_SinkCallsRejected ==
    \A i \in 1..Len(calls) :
        (calls[i].guarded /\ calls[i].op # "clear") =>
            calls[i].exc # "None" /\ calls[i].same

\* ------------------------------------------------ claims checked under Spec
\* C7: an extend of several items, one of which has a key that cannot be
\* computed, raises and leaves storage as it was.
C7_ExtendAllOrNothing ==
    [][(/\ lastcall'.call.op = "extend"
        /\ Len(lastcall'.call.items) >= 2
        /\ ~AllKeysValid(Self, lastcall'.call.items)) =>
            /\ lastcall'.exc # "None"
            /\ data' = data]_vars

\* storage was not empty and the failing item was not the first one
C7_Witness ==
    /\ lastcall.call.op = "extend"
    /\ Len(lastcall.call.items) >= 2
    /\ ~KeyRaises(Self, lastcall.call.items[1])
    /\ ~AllKeysValid(Self, lastcall.call.items)
    /\ lastcall.exc # "None"
    /\ data # <<>>

\* C8: a push or a pop either succeeds entirely (the element is added, the
\* returned element is taken away; a pop of an empty heap takes nothing) or
\* raises and leaves storage as it was.
C8_PushPopAtomic ==
    [][/\ lastcall'.call.op = "push" =>
            IF lastcall'.exc = "None"
            THEN MinusOne(data', lastcall'.call.v, data)
            ELSE data' = data
       /\ lastcall'.call.op = "pop" =>
            IF lastcall'.exc = "None" /\ data # <<>>
            THEN MinusOne(data, lastcall'.ret, data')
            ELSE data' = data]_vars

\* a push whose key was computed and whose sift-up failed
C8_Witness ==
    /\ lastcall.call.op = "push"
    /\ ~KeyRaises(Self, lastcall.call.v)
    /\ lastcall.exc = "ValueError"
    /\ Len(data) >= 1
    /\ \E i \in 1..Len(ev) : ev[i].name = "insert_error"

\* C9: a push of a value whose key cannot be computed fails with
\* ValueError before anything happened: storage, counter and guard are as
\* before and no notification was delivered.
C9_PushValidatesFirst ==
    [][(lastcall'.call.op = "push" /\ KeyRaises(Self, lastcall'.call.v)) =>
            /\ lastcall'.exc = "ValueError"
            /\ data' = data
            /\ ops' = ops
            /\ mutating' = mutating
            /\ ev' = <<>>]_vars

\* an observer was listening and storage was not empty
C9_Witness ==
    /\ lastcall.call.op = "push"
    /\ KeyRaises(Self, lastcall.call.v)
    /\ lastcall.exc = "ValueError"
    /\ observer.kind = "log"
    /\ data # <<>>
    /\ ops > 0

\* ------------- SpecObserver: the observer raises on every notification
InitObserver == New({FailObserver}, {0})

NextObserver ==
    \/ DoPush
    \/ DoPop
    \/ DoClear
    \/ DoExtend
    \/ DoToggleMode
    \/ DoSetMode
    \/ DoHeapify
    \/ DoRemove
    \/ DoPushpop
    \/ DoReplace
    \/ DoMerge

SpecObserver == InitObserver /\ [][NextObserver]_vars

\* a new heap with a listening observer
InitSift == New({LogObserver}, {0})

\* the outcome of the call c on the same heap without an observer
Unobserved(c) == Apply([Self EXCEPT !.observer = NoObserver], c)

\* C10: with an observer that raises on every notification, every call
\* ends with the storage, mode, returned value and error it ends with on
\* the same heap without an observer.
C10_ObserverFailuresSwallowed ==
    [][/\ data' = Unobserved(lastcall'.call).data
       /\ min_heap' = Unobserved(lastcall'.call).min_heap
       /\ lastcall'.ret = Unobserved(lastcall'.call).ret
       /\ lastcall'.exc = Unobserved(lastcall'.call).exc]_vars

\* the observer raised three times or more during a call that succeeded
C10_Witness ==
    /\ observer.kind = "fail"
    /\ Len(ev) >= 3
    /\ lastcall.exc = "None"
    /\ Len(data) >= 2

\* C11: set_mode(m) with m the current mode rebuilds nothing: no
\* notification is delivered, and storage, mode and counter are unchanged.
C11_SetModeSameIsNoOp ==
    [][(lastcall'.call.op = "set_mode" /\ lastcall'.call.all = min_heap) =>
            /\ lastcall'.exc = "None"
            /\ ev' = <<>>
            /\ data' = data
            /\ min_heap' = min_heap
            /\ ops' = ops
            /\ mutating' = mutating]_vars

\* set_mode delivered nothing to a listening observer, on a heap in use
C11_Witness ==
    /\ lastcall.call.op = "set_mode"
    /\ lastcall.call.all = min_heap
    /\ observer.kind = "log"
    /\ ev = <<>>
    /\ Len(data) >= 2
    /\ ops > 0

\* NaN is popped after every other element
NaNLast == (nan_policy = "max") = min_heap

\* C12: NaN is ordered as plus infinity under nan_policy 'max' and as minus
\* infinity under 'min': popping a heap built by pushes until it is empty
\* returns every NaN after the other elements when it is the least
\* preferred key of the mode, before them otherwise; under 'raise' a push
\* of NaN fails and stores nothing.
C12_NaNOrderedByPolicy ==
    /\ [](Uninterrupted =>
            /\ lastcall.call.op = "next" => lastcall.exc \in {"None", "StopIteration"}
            /\ SameMultiset(gen.out \o data, gen.start)
            /\ \A i, j \in 1..Len(gen.out) :
                    (/\ i < j
                     /\ (gen.out[i] = NaN) # (gen.out[j] = NaN)) =>
                        (gen.out[j] = NaN) = NaNLast
            /\ \A i \in 1..Len(gen.out), k \in 1..Len(data) :
                    (gen.out[i] = NaN) # (data[k] = NaN) => (data[k] = NaN) = NaNLast)
    /\ [][(lastcall'.call.op = "push" /\ lastcall'.call.v = NaN
                /\ nan_policy = "raise") =>
            /\ lastcall'.exc = "ValueError"
            /\ data' = data]_vars

\* Min mode, nan_policy 'max': NaN and 1 were pushed, 1 was popped before NaN
C12_Witness ==
    /\ Uninterrupted
    /\ gen.state = "done"
    /\ min_heap
    /\ nan_policy = "max"
    /\ gen.start = <<1, NaN>>
    /\ gen.out = <<1, NaN>>
    /\ ops = 4

\* C13: merge(other) with the same mode, key and NaN policy and an other
\* that is not empty succeeds; storage then holds its elements and those of
\* other, in heap order.
C13_MergeCompatible ==
    [][(/\ lastcall'.call.op = "merge"
        /\ lastcall'.call.other.min_heap = min_heap
        /\ lastcall'.call.other.key = "none"
        /\ lastcall'.call.other.nan_policy = nan_policy
        /\ lastcall'.call.other.data # <<>>) =>
            /\ lastcall'.exc = "None"
            /\ SameMultiset(data', data \o lastcall'.call.other.data)
            /\ is_valid_heap([Self EXCEPT !.data = data']) = "true"]_vars

\* ------------- SpecMerge: push and merge, with a listening observer
MergePush == Step("push", MaxLen, MaxOps)

MergeOther == Step("merge", MaxLen, MaxOps)

NextMerge ==
    \/ MergePush
    \/ MergeOther

SpecMerge == InitSift /\ [][NextMerge]_vars

\* the heap given to merge differs in mode, key or NaN policy
Differs(other) ==
    \/ other.min_heap # min_heap
    \/ other.key # "none"
    \/ other.nan_policy # nan_policy

\* C14: merge(other) fails with the incompatibility error when other
\* differs in mode, key or NaN policy, and returns without an error when
\* other is compatible and empty; in both cases storage and counter are as
\* before and nothing is notified.
C14_MergeRefusedOrNoOp ==
    [][/\ (lastcall'.call.op = "merge" /\ Differs(lastcall'.call.other)) =>
            /\ lastcall'.exc = "Incompatible"
            /\ data' = data
            /\ ops' = ops
            /\ ev' = <<>>
       /\ (lastcall'.call.op = "merge" /\ ~Differs(lastcall'.call.other)
                /\ lastcall'.call.other.data = <<>>) =>
            /\ lastcall'.exc = "None"
            /\ data' = data
            /\ ops' = ops
            /\ ev' = <<>>]_vars

\* a heap in use refused an other that is not empty, with an observer
\* listening
C14_Witness ==
    /\ lastcall.call.op = "merge"
    /\ Differs(lastcall.call.other)
    /\ lastcall.call.other.data # <<>>
    /\ lastcall.exc = "Incompatible"
    /\ observer.kind = "log"
    /\ Len(data) >= 2

\* ------------- SpecRemove: push, merge and remove, without an observer
RemovePush == Step("push", MaxLen, RemoveOps)

RemoveMerge == Step("merge", MaxLen, RemoveOps)

RemoveValue == Step("remove", MaxLen, RemoveOps)

NextRemove ==
    \/ RemovePush
    \/ RemoveMerge
    \/ RemoveValue

SpecRemove == InitInv /\ [][NextRemove]_vars

\* the number of elements of s that Python's == finds equal to v
Occurrences(s, v) == IF v = NaN THEN 0 ELSE Count(s, v)

\* C15: a remove(value, all) that returns, returns the number of elements
\* it removed: one occurrence when all is false and one exists, every
\* occurrence when all is true; every other element is kept exactly once.
C15_RemoveCounts ==
    [][(lastcall'.call.op = "remove" /\ lastcall'.exc = "None") =>
            /\ lastcall'.ret =
                    IF lastcall'.call.all THEN Occurrences(data, lastcall'.call.v)
                    ELSE IF Occurrences(data, lastcall'.call.v) > 0 THEN 1 ELSE 0
            /\ Count(data', lastcall'.call.v)
                    = Count(data, lastcall'.call.v) - lastcall'.ret
            /\ \A w \in Vals \ {lastcall'.call.v} : Count(data', w) = Count(data, w)]_vars

\* ------------- SpecRemoveAt: _remove_at(index) on every storage of up to
\* RemoveAtLen elements that satisfies the heap property
InitRemoveAt ==
    /\ data \in SeqsUpTo(Vals, RemoveAtLen)
    /\ min_heap \in BOOLEAN
    /\ mutating = FALSE
    /\ ops = Len(data)
    /\ verify_sr = 0
    /\ nan_policy \in Policies
    /\ observer = NoObserver
    /\ lastcall = NoLast
    /\ ev = <<>>
    /\ calls = <<>>
    /\ scan = NoScan
    /\ gen = NoGen
    /\ ui = NewUI
    /\ is_valid_heap(Self) = "true"

DoRemoveAt ==
    \E index \in (0 - 1)..RemoveAtLen :
        Do(Call("_remove_at", index, FALSE, <<>>, NoOther), RemoveAtLen, 2 * RemoveAtLen)

NextRemoveAt == DoRemoveAt

SpecRemoveAt == InitRemoveAt /\ [][NextRemoveAt]_vars

\* C16: on a storage that satisfies the heap property, in either mode,
\* _remove_at(index) with an index in range removes exactly the element at
\* that index and leaves the heap property holding; with an index out of
\* range it leaves storage as it was.
C16_RemoveAtKeepsHeap ==
    [][(lastcall'.call.op = "_remove_at" /\ is_valid_heap(Self) = "true") =>
            IF 0 <= lastcall'.call.v /\ lastcall'.call.v < Len(data)
            THEN /\ lastcall'.exc = "None"
                 /\ Len(data') = Len(data) - 1
                 /\ \A w \in Vals :
                        Count(data', w) = Count(data, w)
                            - (IF w = data[lastcall'.call.v + 1] THEN 1 ELSE 0)
                 /\ is_valid_heap([Self EXCEPT !.data = data']) = "true"
            ELSE data' = data]_vars

\* storage t is storage s with one root taken away and v added
RootReplaced(s, v, t) ==
    /\ Len(t) = Len(s)
    /\ SameMultiset(t \o <<s[1]>>, s \o <<v>>)

\* C17: replace(value) on an empty heap fails with IndexError and changes
\* nothing; on a storage that satisfies the heap property and is not empty
\* it returns the old root, keeps the size, stores value in place of the old
\* root and leaves the heap property holding.
C17_ReplaceRoot ==
    [][(lastcall'.call.op = "replace" /\ is_valid_heap(Self) = "true") =>
            IF data = <<>>
            THEN /\ lastcall'.exc = "IndexError"
                 /\ data' = data
                 /\ ops' = ops
            ELSE /\ lastcall'.exc = "None"
                 /\ lastcall'.ret = data[1]
                 /\ RootReplaced(data, lastcall'.call.v, data')
                 /\ is_valid_heap([Self EXCEPT !.data = data']) = "true"]_vars

\* C18: pushpop(value) returns value and leaves storage as it was when the
\* heap is empty or value is not preferred over the root, and otherwise
\* puts value at the root and returns the old root (keys that can be
\* computed, storage that satisfies the heap property).
C18_Pushpop ==
    [][(/\ lastcall'.call.op = "pushpop"
        /\ is_valid_heap(Self) = "true"
        /\ (data # <<>> => ~PreferRaises(Self, lastcall'.call.v, data[1]))) =>
            IF data = <<>> \/ ~Prefer(Self, lastcall'.call.v, data[1])
            THEN /\ lastcall'.ret = lastcall'.call.v
                 /\ data' = data
            ELSE /\ lastcall'.ret = data[1]
                 /\ RootReplaced(data, lastcall'.call.v, data')]_vars

\* ------------- SpecSift: a listening observer, storage of up to SortLen
\* elements, so that a sift exchanges more than once
SiftPush == Step("push", SortLen, SiftOps)

SiftPop == Step("pop", SortLen, SiftOps)

SiftHeapify == Step("heapify", SortLen, SiftOps)

SiftToggleMode == Step("toggle_mode", SortLen, SiftOps)

SiftSetMode == Step("set_mode", SortLen, SiftOps)

SiftReplace == Step("replace", SortLen, SiftOps)

SiftPushpop == Step("pushpop", SortLen, SiftOps)

NextSift ==
    \/ SiftPush
    \/ SiftPop
    \/ SiftHeapify
    \/ SiftToggleMode
    \/ SiftSetMode
    \/ SiftReplace
    \/ SiftPushpop

SpecSift == InitSift /\ [][NextSift]_vars

\* C19: every exchange a sift makes follows a comparison, so the swap
\* notification of the exchange comes right after the compare notification
\* of the comparison that decided it.
C19_CompareBeforeSwap ==
    \A i \in 1..Len(ev) :
        ev[i].name = "swap" => (i > 1 /\ ev[i - 1].name = "compare")

\* the storage the sifts of the call c start from: after the append of
\* push, the move of the last element to the root of pop, the write of the
\* root of replace and pushpop
SiftStart(c, e) ==
    CASE c.op = "push" -> Append(data, c.v)
      [] c.op = "pop" ->
            IF Len(data) >= 2
            THEN SetAt(SubSeq(data, 1, Len(data) - 1), 0, data[Len(data)])
            ELSE <<>>
      [] c.op \in {"replace", "pushpop"} ->
            IF \E k \in 1..Len(e) : e[k].name = "replace_root"
            THEN SetAt(data, 0, c.v)
            ELSE data
      [] OTHER -> data

\* storage s after the exchanges that the swap notifications e[k], e[k+1],
\* ... report, each carrying the values its two positions hold after it;
\* <<None>> when a notification carries other values
RECURSIVE SwapsReplay(_, _, _)
SwapsReplay(s, e, k) ==
    IF k > Len(e) THEN s
    ELSE IF e[k].name # "swap" THEN SwapsReplay(s, e, k + 1)
    ELSE IF e[k].ai = s[e[k].j + 1] /\ e[k].aj = s[e[k].i + 1]
    THEN SwapsReplay(SetAt(SetAt(s, e[k].i, e[k].ai), e[k].j, e[k].aj), e, k + 1)
    ELSE <<None>>

\* C20: the swap notifications of a call, applied in their order to the
\* storage the sifts started from, give the storage the call leaves: every
\* exchange has its notification, once, with the two indices and the values
\* now stored at them.  (push and pop that fail restore their snapshot.)
C20_SwapPerExchange ==
    [][(lastcall'.exc = "None" \/ lastcall'.call.op \notin {"push", "pop"}) =>
            SwapsReplay(SiftStart(lastcall'.call, ev'), ev', 1) = data']_vars

\* a call that exchanged twice
C20_Witness ==
    /\ lastcall.exc = "None"
    /\ \E i, j \in 1..Len(ev) :
            /\ i < j
            /\ ev[i].name = "swap"
            /\ ev[j].name = "swap"
            /\ ev[i].ai # ev[i].aj
            /\ ev[j].j = ev[i].i \/ ev[j].i = ev[i].j

\* the values a caller passes as the default of pop
Defaults == Vals \cup {None}

\* C21: pop on an empty heap returns the default it was given, without an
\* error, and storage stays empty; a pop that returns on a heap that is not
\* empty returns the element that was at the root, takes exactly that one
\* element away and keeps the others; on a storage that satisfies the heap
\* property pop returns and no element left is preferred over the one
\* returned.
C21_PopReturnsRoot ==
    [][lastcall'.call.op = "pop" =>
            IF data = <<>>
            THEN /\ lastcall'.exc = "None"
                 /\ lastcall'.ret = None
                 /\ data' = <<>>
                 /\ \A d \in Defaults :
                        /\ Pop(Self, d).exc = "None"
                        /\ Pop(Self, d).ret = d
                        /\ Pop(Self, d).data = <<>>
            ELSE /\ lastcall'.exc = "None" =>
                        /\ lastcall'.ret = data[1]
                        /\ Len(data') = Len(data) - 1
                        /\ MinusOne(data, data[1], data')
                 /\ is_valid_heap(Self) = "true" =>
                        /\ lastcall'.exc = "None"
                        /\ \A i \in 1..Len(data') :
                                ~Prefer(Self, data'[i], lastcall'.ret)]_vars

\* a pop of three elements or more that sifted the moved element down
C21_Witness ==
    /\ lastcall.call.op = "pop"
    /\ lastcall.exc = "None"
    /\ Len(data) >= 2
    /\ lastcall.ret \notin {data[i] : i \in 1..Len(data)}
    /\ \E i \in 1..Len(ev) : ev[i].name = "swap"

\* C22: toggle_mode flips the mode; when it returns, storage holds the same
\* elements and satisfies the heap property of the new mode; from a storage
\* that satisfies the heap property it returns, and a second toggle_mode
\* right after it gives the original mode back with a valid heap of the same
\* elements.
C22_ToggleRebuilds ==
    [][lastcall'.call.op = "toggle_mode" =>
            /\ min_heap' = ~min_heap
            /\ lastcall'.exc = "None" =>
                    /\ Len(data') = Len(data)
                    /\ SameMultiset(data', data)
                    /\ is_valid_heap([Self EXCEPT !.data = data',
                                                  !.min_heap = min_heap']) = "true"
            /\ is_valid_heap(Self) = "true" =>
                    /\ lastcall'.exc = "None"
                    /\ ToggleMode(ToggleMode(Self)).exc = "None"
                    /\ ToggleMode(ToggleMode(Self)).min_heap = min_heap
                    /\ SameMultiset(ToggleMode(ToggleMode(Self)).data, data)
                    /\ is_valid_heap(ToggleMode(ToggleMode(Self))) = "true"]_vars

\* a toggle_mode that had to exchange elements of a heap of three or more
C22_Witness ==
    /\ lastcall.call.op = "toggle_mode"
    /\ lastcall.exc = "None"
    /\ Len(data) >= 3
    /\ \E i \in 1..Len(ev) : ev[i].name = "swap"
    /\ is_valid_heap(Self) = "true"

\* ------------- SpecQuery: the queries nlargest and peek on heaps built by
\* push and replace, with a listening observer
QueryPush == Step("push", MaxLen, MaxOps)

QueryReplace == Step("replace", MaxLen, MaxOps)

QueryNlargest ==
    \E n \in (0 - 1)..(MaxLen + 1) :
        Do(Call("nlargest", n, FALSE, <<>>, NoOther), MaxLen, MaxOps)

QueryPeek == Step("peek", MaxLen, MaxOps)

NextQuery ==
    \/ QueryPush
    \/ QueryReplace
    \/ QueryNlargest
    \/ QueryPeek

SpecQuery == InitSift /\ [][NextQuery]_vars

\* the call changed no field of the heap and notified nothing
PureRead ==
    /\ data' = data
    /\ min_heap' = min_heap
    /\ ops' = ops
    /\ mutating' = mutating
    /\ ev' = <<>>

\* what nlargest(n) returns when the stored keys can be computed: that many
\* stored elements, none of them preferred over an element left out
LeastPreferred(out, n) ==
    /\ Len(out) = (IF n < Len(data) THEN n ELSE Len(data))
    /\ \A v \in Vals : Count(out, v) <= Count(data, v)
    /\ \A v, w \in Vals :
            (Count(out, v) < Count(data, v) /\ Count(out, w) > 0) =>
                ~Prefer(Self, w, v)

\* C23 as stated: nlargest(n) returns its elements by decreasing preference,
\* each one preferred over or equal to the one after it, in both modes.
C23_Original ==
    [][(lastcall'.call.op = "nlargest" /\ lastcall'.exc = "None") =>
            \A i, j \in 1..Len(lastcall'.out) :
                i < j => ~Prefer(Self, lastcall'.out[j], lastcall'.out[i])]_vars

\* C23: nlargest(n) changes nothing; it returns no element for n <= 0;
\* it fails with ValueError when n > 0 and a stored key cannot be computed;
\* otherwise it returns min(n, size) elements, the least preferred ones, by
\* increasing preference: no returned element is preferred over the one
\* after it (largest key first in Min mode, smallest key first in Max mode).
C23_NlargestOrder ==
    [][lastcall'.call.op = "nlargest" =>
            /\ PureRead
            /\ IF lastcall'.call.v <= 0
               THEN lastcall'.exc = "None" /\ lastcall'.out = <<>>
               ELSE IF ~AllKeysValid(Self, data)
               THEN lastcall'.exc = "ValueError"
               ELSE /\ lastcall'.exc = "None"
                    /\ LeastPreferred(lastcall'.out, lastcall'.call.v)
                    /\ \A i, j \in 1..Len(lastcall'.out) :
                            i < j => ~Prefer(Self, lastcall'.out[i],
                                             lastcall'.out[j])]_vars

\* nlargest(2) on three elements returned two elements of different keys
C23_Witness ==
    /\ lastcall.call.op = "nlargest"
    /\ lastcall.call.v = 2
    /\ lastcall.exc = "None"
    /\ Len(data) = 3
    /\ Len(lastcall.out) = 2
    /\ lastcall.out[1] # lastcall.out[2]

\* ------------- SpecVerify: heaps constructed with verify_sample_rate in
\* 0..MaxRate, without an observer and with the default nan_policy
InitVerify == New({NoObserver}, 0..MaxRate) /\ nan_policy = "raise"

VerifyPush == Step("push", MaxLen, VerifyOps)

VerifyPop == Step("pop", MaxLen, VerifyOps)

VerifyMerge == Step("merge", MaxLen, VerifyOps)

NextVerify ==
    \/ VerifyPush
    \/ VerifyPop
    \/ VerifyMerge

SpecVerify == InitVerify /\ [][NextVerify]_vars

\* the outcome of the call c on the same heap with verify_sample_rate = 0
Unverified(c) == Apply([Self EXCEPT !.verify_sr = 0], c)

\* the call left the guard with a counter that is a multiple of the rate and
\* a storage that does not pass is_valid_heap
ScanFails ==
    /\ verify_sr > 0
    /\ ops' = ops + 1
    /\ ops' % verify_sr = 0
    /\ is_valid_heap([Self EXCEPT !.data = data', !.min_heap = min_heap']) # "true"

\* C24 as stated: a call that leaves the guard, by success or by failure,
\* with a counter that is a multiple of the rate and a storage that does not
\* satisfy the heap property, fails with the verification error.
C24_Original ==
    [][ScanFails => lastcall'.exc = "VerifyError"]_vars

\* the call ended as u, its outcome with rate 0, says, but for the error of
\* a failed scan after a body that succeeded
VerifiedAs(u) ==
    /\ data' = u.data
    /\ min_heap' = u.min_heap
    /\ ops' = u.ops
    /\ mutating' = FALSE
    /\ verify_sr = 0 => lastcall'.exc # "VerifyError"
    /\ IF u.exc = "None" /\ ScanFails
       THEN lastcall'.exc = "VerifyError"
       ELSE /\ lastcall'.exc = u.exc
            /\ lastcall'.ret = u.ret

\* C24: a call whose body succeeded and that leaves the guard with a
\* counter that is a multiple of the rate and a storage that does not pass
\* the scan fails with the verification error; a call whose body failed
\* keeps the error of the body; in every other case the call ends as it
\* does with rate 0; the verification changes neither storage nor mode nor
\* counter, and with rate 0 no call fails with the verification error.
C24_SampledVerification ==
    [][VerifiedAs(Unverified(lastcall'.call))]_vars

\* a push that succeeded in its body failed the verification
C24_Witness ==
    /\ lastcall.call.op = "push"
    /\ lastcall.exc = "VerifyError"
    /\ verify_sr = MaxRate
    /\ ops % verify_sr = 0
    /\ is_valid_heap(Self) = "false"

\* C25: the flag _mutating is False after every call, whether it returned,
\* raised, rolled back or failed the verification, and the call after a
\* failed one is never rejected by its own guard: the only re-entrancy error
\* is the one of the heapify that merge calls while merge itself holds the
\* guard, and that merge entered the guard and was counted.
C25_GuardReleased ==
    [][/\ mutating' = FALSE
       /\ (lastcall.exc # "None" /\ lastcall'.exc = "Reentrant") =>
              /\ lastcall'.call.op = "merge"
              /\ ops' = ops + 1]_vars

\* a push succeeded on the invalid storage that a failed merge left
C25_Witness ==
    /\ lastcall.call.op = "push"
    /\ lastcall.exc = "None"
    /\ is_valid_heap(Self) = "false"
    /\ mutating = FALSE
    /\ ops = 3

\* C26 (violated): _mutating guards every change of data and min_heap, so a
\* call that the guard rejects as re-entrant, and that therefore never held
\* it, leaves storage and mode as they were when it was made.
C26_ChangedOnlyUnderGuard ==
    \A i \in 1..Len(calls) : calls[i].exc = "Reentrant" => calls[i].same

\* ------------- SpecCount: every operation that counts, on a heap without an
\* observer and with the default nan_policy
InitCount == New({NoObserver}, {0}) /\ nan_policy = "raise"

CountPush == Step("push", SinkLen, MaxOps)

CountPop == Step("pop", SinkLen, MaxOps)

CountHeapify == Step("heapify", SinkLen, MaxOps)

CountToggleMode == Step("toggle_mode", SinkLen, MaxOps)

CountPushpop == Step("pushpop", SinkLen, MaxOps)

CountReplace == Step("replace", SinkLen, MaxOps)

CountExtend == Step("extend", SinkLen, MaxOps)

CountRemove == Step("remove", SinkLen, MaxOps)

CountMerge == Step("merge", SinkLen, MaxOps)

NextCount ==
    \/ CountPush
    \/ CountPop
    \/ CountHeapify
    \/ CountToggleMode
    \/ CountPushpop
    \/ CountReplace
    \/ CountExtend
    \/ CountRemove
    \/ CountMerge

SpecCount == InitCount /\ [][NextCount]_vars

\* the call c is refused before any guard is entered: push of a value whose
\* key cannot be computed, replace on an empty heap, merge of a heap with
\* another configuration
RefusedEagerly(c) ==
    \/ c.op = "push" /\ KeyRaises(Self, c.v)
    \/ c.op = "extend" /\ Len(c.items) = 1 /\ KeyRaises(Self, c.items[1])
    \/ c.op = "replace" /\ data = <<>>
    \/ c.op = "merge" /\ Merge(Self, c.other).exc = "Incompatible"

\* the call c has nothing to do and returns before any guard is entered
NothingToDo(c) ==
    \/ c.op = "extend" /\ c.items = <<>>
    \/ c.op = "remove" /\ \A i \in 1..Len(data) : ~PyEq(data[i], c.v)
    \/ c.op = "merge" /\ c.other.data = <<>>

\* C27: _ops never decreases; a push, pop, heapify, toggle_mode, pushpop,
\* replace, extend of several items, remove of one element or merge that goes
\* through the guard adds exactly one to it, whether it returns or raises
\* inside the guard (the heapify that merge calls is rejected as re-entrant
\* and is not counted); a call refused by eager validation, and a call with
\* nothing to do, leaves it unchanged.
C27_CountedOnce ==
    [][/\ ops' >= ops
       /\ (lastcall'.call.op = "remove" /\ lastcall'.call.all)
          \/ ops' = IF RefusedEagerly(lastcall'.call) \/ NothingToDo(lastcall'.call)
                    THEN ops
                    ELSE ops + 1]_vars

\* a merge failed inside the guard, on the rejected heapify, and was counted
\* once
C27_Witness ==
    /\ lastcall.call.op = "merge"
    /\ lastcall.exc = "Reentrant"
    /\ ops = 2
    /\ Len(data) = 2

\* C28: peek returns data[0] of a non-empty heap and None of an empty one,
\* never raises, leaves data, min_heap, _ops and _mutating as they were and
\* notifies nothing.
C28_PeekIsPureRead ==
    [][lastcall'.call.op = "peek" =>
          /\ lastcall'.exc = "None"
          /\ lastcall'.ret = (IF data = <<>> THEN None ELSE data[1])
          /\ PureRead]_vars

\* peek returned the root of a heap of several elements that has an observer
C28_Witness ==
    /\ lastcall.call.op = "peek"
    /\ Len(data) >= 2
    /\ lastcall.ret = data[1]
    /\ data[Len(data)] # data[1]
    /\ observer = LogObserver
    /\ ev = <<>>

\* ------------- SpecHeapify: heapify() and is_valid_heap() on every storage
\* of up to HeapifyLen elements, in any arrangement (merge appends the
\* elements of the other heap as they are)
InitHeapify ==
    /\ data \in SeqsUpTo(Vals, HeapifyLen)
    /\ min_heap \in BOOLEAN
    /\ mutating = FALSE
    /\ ops = Len(data)
    /\ verify_sr = 0
    /\ nan_policy \in Policies
    /\ observer = LogObserver
    /\ lastcall = NoLast
    /\ ev = <<>>
    /\ calls = <<>>
    /\ scan = NoScan
    /\ gen = NoGen
    /\ ui = NewUI

HeapifyAny == Step("heapify", HeapifyLen, HeapifyLen + 1)

IsValidAny == Step("is_valid_heap", HeapifyLen, HeapifyLen + 1)

\* _heapify_down(index) with an index of storage
HeapifyDownAny ==
    \E index \in 0..(Len(data) - 1) :
        Do(Call("_heapify_down", index, FALSE, <<>>, NoOther), HeapifyLen, HeapifyLen + 1)

NextHeapify ==
    \/ HeapifyAny
    \/ IsValidAny
    \/ HeapifyDownAny

SpecHeapify == InitHeapify /\ [][NextHeapify]_vars

\* the heap property of the storage s of the heap h, whose keys can be
\* computed: no element is preferred over its parent
HeapProperty(h, s) ==
    \A c \in 2..Len(s) : ~Prefer(h, s[c], s[c \div 2])

\* C29: heapify on a storage whose keys can all be computed, in whatever
\* arrangement, returns without error, keeps the size and the multiset of
\* the elements, and leaves no element preferred over its parent in the
\* current mode.
C29_HeapifyAnyArrangement ==
    [][(lastcall'.call.op = "heapify" /\ AllKeysValid(Self, data)) =>
          /\ lastcall'.exc = "None"
          /\ Len(data') = Len(data)
          /\ SameMultiset(data', data)
          /\ min_heap' = min_heap
          /\ HeapProperty(Self, data')]_vars

\* heapify exchanged elements at several positions of a storage of three
\* levels
C29_Witness ==
    /\ lastcall.call.op = "heapify"
    /\ lastcall.exc = "None"
    /\ Len(data) = HeapifyLen
    /\ Cardinality({i \in 1..Len(ev) : ev[i].name = "swap"}) >= 3
    /\ HeapProperty(Self, data)

\* C30: is_valid_heap() changes nothing and notifies nothing; on a storage
\* whose keys can all be computed it returns, and returns True exactly when
\* no element is preferred over its parent, for every size from 0 on; on a
\* storage with a key that cannot be computed it returns True only when
\* there is nothing to compare, and otherwise returns False or raises
\* ValueError.
C30_ScanDecidesHeapProperty ==
    [][lastcall'.call.op = "is_valid_heap" =>
          /\ PureRead
          /\ IF AllKeysValid(Self, data)
             THEN /\ lastcall'.exc = "None"
                  /\ lastcall'.ret = (IF HeapProperty(Self, data) THEN 1 ELSE 0)
             ELSE \/ lastcall'.exc = "None" /\ lastcall'.ret = 1 /\ Len(data) = 1
                  \/ lastcall'.exc = "None" /\ lastcall'.ret = 0 /\ Len(data) >= 2
                  \/ lastcall'.exc = "ValueError" /\ Len(data) >= 2]_vars

\* the scan returned True on a storage of three levels whose elements differ
C30_Witness ==
    /\ lastcall.call.op = "is_valid_heap"
    /\ lastcall.ret = 1
    /\ Len(data) = HeapifyLen
    /\ data[1] # data[Len(data)]
    /\ HeapProperty(Self, data)

\* C31 (violated): a replace(value) or pushpop(value) on a non-empty heap
\* with a value whose key cannot be computed raises and leaves storage as
\* it was before the call.
C31_KeyFailureLeavesStorage ==
    [][(/\ lastcall'.call.op \in {"replace", "pushpop"}
        /\ KeyRaises(Self, lastcall'.call.v)
        /\ data # <<>>
        /\ AllKeysValid(Self, data)) =>
            /\ lastcall'.exc # "None"
            /\ data' = data]_vars

\* ------------- SpecRollback: the operations that snapshot storage, and
\* merge, which brings a NaN into storage under nan_policy='raise'
RollbackPush == Step("push", MaxLen, RollbackOps)

RollbackPop == Step("pop", MaxLen, RollbackOps)

RollbackClear == Step("clear", MaxLen, RollbackOps)

RollbackExtend == Step("extend", MaxLen, RollbackOps)

RollbackMerge == Step("merge", MaxLen, RollbackOps)

NextRollback ==
    \/ RollbackPush
    \/ RollbackPop
    \/ RollbackClear
    \/ RollbackExtend
    \/ RollbackMerge

SpecRollback == InitCount /\ [][NextRollback]_vars

\* C32: a push, pop, clear or extend that fails ends with the error of the
\* key computation that failed, a ValueError.
C32_ErrorAfterRollback ==
    [][(/\ lastcall'.call.op \in {"push", "pop", "clear", "extend"}
        /\ lastcall'.exc # "None") =>
            lastcall'.exc = "ValueError"]_vars

\* ------------- SpecEvents: push, pop and merge on a heap with a logging
\* observer, the default nan_policy and every verify_sample_rate
InitEvents == New({LogObserver}, 0..MaxRate) /\ nan_policy = "raise"

EventsPush == Step("push", MaxLen, RollbackOps)

EventsPop == Step("pop", MaxLen, RollbackOps)

EventsMerge == Step("merge", MaxLen, RollbackOps)

NextEvents ==
    \/ EventsPush
    \/ EventsPop
    \/ EventsMerge

SpecEvents == InitEvents /\ [][NextEvents]_vars

\* the events a to b of the sequence e are swap events
SwapsOnly(e, a, b) == \A i \in a..b : e[i].name = "swap"

\* no event of e has the name n
Without(e, n) == \A i \in 1..Len(e) : e[i].name # n

\* the events of a push that returned: insert_start, insert with the new
\* index and the value, swaps, push_done
PushEvents(e, index, value) ==
    /\ Len(e) >= 3
    /\ e[1].name = "insert_start"
    /\ e[2].name = "insert" /\ e[2].i = index /\ e[2].ai = value
    /\ SwapsOnly(e, 3, Len(e) - 1)
    /\ e[Len(e)].name = "push_done"

\* the events of a pop of n elements that returned: pop_start, pop_root,
\* move if an element remains, swaps, pop_done
PopEvents(e, n) ==
    /\ Len(e) >= 3
    /\ e[1].name = "pop_start"
    /\ e[2].name = "pop_root"
    /\ IF n >= 2
       THEN Len(e) >= 4 /\ e[3].name = "move" /\ SwapsOnly(e, 4, Len(e) - 1)
       ELSE Len(e) = 3
    /\ e[Len(e)].name = "pop_done"

\* the events of a push or pop that raised: the last one is the error
\* event, and there is no done event
FailedEvents(e, error, done) ==
    /\ Len(e) >= 1
    /\ e[Len(e)].name = error
    /\ Without(e, done)

\* C33 as stated: every push that fails ends with insert_error.
C33_Original ==
    [][(lastcall'.call.op = "push" /\ lastcall'.exc # "None") =>
            FailedEvents(ev', "insert_error", "push_done")]_vars

\* C33: a push that returns delivers insert_start, insert (new index and
\* value), swaps, push_done; a pop of a non-empty heap that returns
\* delivers pop_start, pop_root, move only if elements remain, swaps,
\* pop_done; a push or pop whose body fails inside the guard ends with
\* insert_error or pop_error and delivers no done event; a push refused by
\* the validation of its value delivers nothing; a push or pop that fails
\* only in the sampled verification at the exit of the guard has delivered
\* the events of the call that returns, the done event last.
C33_EventOrder ==
    [][/\ (lastcall'.call.op = "push" /\ lastcall'.exc \in {"None", "VerifyError"}) =>
              PushEvents(ev', Len(data), lastcall'.call.v)
       /\ (lastcall'.call.op = "pop" /\ lastcall'.exc \in {"None", "VerifyError"}
              /\ data # <<>>) =>
              PopEvents(ev', Len(data))
       /\ (lastcall'.call.op = "push" /\ lastcall'.exc \notin {"None", "VerifyError"}) =>
              IF KeyRaises(Self, lastcall'.call.v) THEN ev' = <<>>
              ELSE FailedEvents(ev', "insert_error", "push_done")
       /\ (lastcall'.call.op = "pop" /\ lastcall'.exc \notin {"None", "VerifyError"}) =>
              FailedEvents(ev', "pop_error", "pop_done")
       /\ (lastcall'.call.op = "pop" /\ lastcall'.exc = "VerifyError") => data # <<>>
       /\ verify_sr = 0 => lastcall'.exc # "VerifyError"]_vars

\* a push on storage that merge left invalid delivered its events up to
\* push_done and failed in the verification at the exit of the guard
C33_Witness ==
    /\ lastcall.call.op = "push"
    /\ lastcall.exc = "VerifyError"
    /\ verify_sr > 0
    /\ Len(ev) >= 3
    /\ ev[Len(ev)].name = "push_done"

\* the first exchange of the call was between the positions i and j
FirstSwap(e, i, j) == e # <<>> /\ e[1].name = "swap" /\ e[1].i = i /\ e[1].j = j

\* the choice of _heapify_down(index) among the children left and right of
\* the storage s, whose keys can be computed
ChoosesLeftOnTies(h, s, e, index, left, right) ==
    /\ (/\ right < Len(s)
        /\ Prefer(h, s[left + 1], s[index + 1])
        /\ Prefer(h, s[right + 1], s[index + 1])
        /\ K(h, s[left + 1]) = K(h, s[right + 1])) => FirstSwap(e, index, left)
    /\ FirstSwap(e, index, right) =>
           /\ right < Len(s)
           /\ Prefer(h, s[right + 1], s[index + 1])
           /\ Prefer(h, s[right + 1], s[left + 1])
    /\ (e # <<>>) => FirstSwap(e, index, left) \/ FirstSwap(e, index, right)
    /\ (/\ left < Len(s)
        /\ Prefer(h, s[left + 1], s[index + 1])
        /\ (right < Len(s) => ~Prefer(h, s[right + 1], s[left + 1])))
           => FirstSwap(e, index, left)

\* C34: in _heapify_down, when both children are preferred over the element
\* at index and have equal keys, the element is exchanged with the left
\* child; it is exchanged with the right child only when the right child is
\* preferred over the element and over the left child.
C34_LeftWinsTies ==
    [][(lastcall'.call.op = "_heapify_down" /\ AllKeysValid(Self, data)) =>
          /\ lastcall'.exc = "None"
          /\ ChoosesLeftOnTies(Self, data, ev', lastcall'.call.v,
                               2 * lastcall'.call.v + 1, 2 * lastcall'.call.v + 2)]_vars

\* the root went down to the left although both children, equal, were
\* preferred over it
C34_Witness ==
    /\ lastcall.call.op = "_heapify_down"
    /\ lastcall.call.v = 0
    /\ Len(data) >= 3
    /\ FirstSwap(ev, 0, 1)
    /\ data[1] = data[3]
    /\ ev[1].aj # data[3]

\* ------------- SpecStats: depth() and is_perfect() on heaps of up to
\* StatsLen elements
InitStats ==
    /\ data \in SeqsUpTo(1..MaxVal, StatsLen)
    /\ min_heap \in BOOLEAN
    /\ mutating = FALSE
    /\ ops = Len(data)
    /\ verify_sr = 0
    /\ nan_policy = "raise"
    /\ observer = LogObserver
    /\ lastcall = NoLast
    /\ ev = <<>>
    /\ calls = <<>>
    /\ scan = NoScan
    /\ gen = NoGen
    /\ ui = NewUI
    /\ is_valid_heap(Self) = "true"

StatsDepth == Step("depth", StatsLen, StatsLen)

StatsIsPerfect == Step("is_perfect", StatsLen, StatsLen)

NextStats ==
    \/ StatsDepth
    \/ StatsIsPerfect

SpecStats == InitStats /\ [][NextStats]_vars

RECURSIVE Pow2(_)
Pow2(k) == IF k = 0 THEN 1 ELSE 2 * Pow2(k - 1)

\* C35: depth() returns 0 for an empty heap and otherwise the number d of
\* levels, 2^(d-1) <= size < 2^d; is_perfect() returns True exactly when
\* size = 2^h - 1 for some h >= 0; neither changes the heap.
C35_DepthAndPerfect ==
    [][/\ lastcall'.call.op = "depth" =>
              /\ PureRead
              /\ lastcall'.exc = "None"
              /\ IF data = <<>> THEN lastcall'.ret = 0
                 ELSE /\ lastcall'.ret >= 1
                      /\ Pow2(lastcall'.ret - 1) <= Len(data)
                      /\ Len(data) < Pow2(lastcall'.ret)
       /\ lastcall'.call.op = "is_perfect" =>
              /\ PureRead
              /\ lastcall'.exc = "None"
              /\ lastcall'.ret \in {0, 1}
              /\ lastcall'.ret = 1 <=>
                     \E h \in 0..(Len(data) + 1) : Len(data) = Pow2(h) - 1]_vars

\* depth() returned 3 on a heap of 7 elements, which is perfect
C35_Witness ==
    /\ lastcall.call.op = "depth"
    /\ lastcall.ret = 3
    /\ Len(data) = 7
    /\ IsPerfect(Self) = 1

\* ------------- SpecRemoveAll: remove(value, all=True), one iteration of its
\* while loop per step, on every storage of up to RemoveAllLen elements
InitRemoveAll ==
    /\ InitHeapify
    /\ Len(data) <= RemoveAllLen

\* "removed = 0; i = 0": the loop starts; size is len(self.data) at the call
RemoveAllStart ==
    /\ ~scan.active
    /\ ops + Len(data) <= 2 * RemoveAllLen
    /\ \E value \in Vals :
          /\ scan' = [i |-> 0, value |-> value, removed |-> 0, active |-> TRUE,
                      size |-> Len(data)]
          /\ lastcall' = [NoLast EXCEPT !.call = Call("remove", value, TRUE, <<>>, NoOther)]
    /\ ev' = <<>>
    /\ calls' = <<>>
    /\ UNCHANGED <<data, min_heap, mutating, ops, verify_sr, nan_policy, observer, ui, gen>>

\* an "i += 1" that is left out
ScanStays(sc) == sc

\* "i += 1"
ScanAdvance(sc) == [sc EXCEPT !.i = @ + 1]

\* the iteration found data[i] == value and called _remove_at(i), which
\* ended as r (with what the observer did at its notification): remove
\* raises RuntimeError if r raised or storage did not shrink, and goes on
\* with the same i otherwise
RemoveAllRemoved(r) ==
    /\ data' = r.data
    /\ min_heap' = r.min_heap
    /\ ops' = r.ops
    /\ mutating' = r.mutating
    /\ ev' = r.ev
    /\ calls' = r.calls
    /\ IF ~Ok(r) \/ Len(r.data) >= Len(data)
       THEN /\ scan' = [scan EXCEPT !.active = FALSE]
            /\ lastcall' = [lastcall EXCEPT !.exc = "RuntimeError"]
       ELSE /\ scan' = [scan EXCEPT !.removed = @ + 1]
            /\ lastcall' = lastcall
    /\ UNCHANGED <<verify_sr, nan_policy, observer, ui, gen>>

\* one iteration of "while i < len(self.data)"
RemoveAllIter ==
    /\ scan.active
    /\ scan.i < Len(data)
    /\ IF PyEq(data[scan.i + 1], scan.value)
       THEN \E r \in {RemoveAt(Self, scan.i)} : RemoveAllRemoved(r)
       ELSE /\ scan' = ScanAdvance(scan)
            /\ UNCHANGED <<data, min_heap, mutating, ops, verify_sr, nan_policy,
                           observer, lastcall, ev, calls, ui, gen>>

\* the call ended as r after "if removed: self._notify('remove_value', ...)"
\* and "return removed"; no guard is held at that notification, so a call
\* the observer makes on the heap is carried out
RemoveAllReturned(r) ==
    /\ data' = r.data
    /\ min_heap' = r.min_heap
    /\ ops' = r.ops
    /\ mutating' = r.mutating
    /\ ev' = r.ev
    /\ calls' = r.calls
    /\ lastcall' = [lastcall EXCEPT !.exc = r.exc, !.ret = r.ret]
    /\ UNCHANGED <<verify_sr, nan_policy, observer, ui, gen>>

\* the loop is left: remove_value is notified if something was removed, and
\* the count is returned
RemoveAllEnd ==
    /\ scan.active
    /\ ~(scan.i < Len(data))
    /\ scan' = [scan EXCEPT !.active = FALSE]
    /\ \E r \in {RemoveDone([Self EXCEPT !.ret = scan.removed], scan.value)} :
          RemoveAllReturned(r)

NextRemoveAll ==
    \/ RemoveAllStart
    \/ RemoveAllIter
    \/ RemoveAllEnd

\* the loop runs on: an iteration that can be made is made
SpecRemoveAll ==
    /\ InitRemoveAll
    /\ [][NextRemoveAll]_vars
    /\ WF_vars(RemoveAllIter)
    /\ WF_vars(RemoveAllEnd)

\* C36: every iteration of the loop of remove(value, all=True) either
\* advances the index over an unchanged storage, or shrinks storage at the
\* same index, or ends the call with an error; the removed elements and the
\* remaining ones add up to the size at the call, so at most size
\* iterations remove an element; and the call always comes to its end.
C36_RemoveAllTerminates ==
    /\ [][(scan.active /\ scan'.active) =>
              \/ scan'.i = scan.i + 1 /\ data' = data /\ scan'.removed = scan.removed
              \/ /\ scan'.i = scan.i
                 /\ Len(data') = Len(data) - 1
                 /\ scan'.removed = scan.removed + 1]_vars
    /\ [](scan.active => scan.removed + Len(data) = scan.size /\ scan.i <= Len(data))
    /\ (scan.active ~> ~scan.active)

\* the call went through the whole storage and removed several elements
C36_Witness ==
    /\ ~scan.active
    /\ lastcall.call.op = "remove"
    /\ lastcall.exc = "None"
    /\ lastcall.ret >= 2
    /\ scan.i >= 2
    /\ Len(data) >= 2
    /\ scan.removed + Len(data) = scan.size

\* ------------------------------------------------------------- the UI
\* the keys of the mapping of _on_heap_event
Animated == {"compare", "swap", "move", "insert"}

\* the visual type the mapping gives to an event
VisualType(name) == IF name = "insert" THEN "appear" ELSE name

\* _on_heap_event: events outside the mapping are dropped, the others are
\* appended to anim_queue
OnHeapEvent(u, e) ==
    IF e.name \notin Animated THEN u
    ELSE [u EXCEPT !.anim_queue = Append(@, Anim(VisualType(e.name), e))]

\* the observer calls of one call on the heap, in the order they were made
RECURSIVE OnHeapEvents(_, _)
OnHeapEvents(u, events) ==
    IF events = <<>> THEN u
    ELSE OnHeapEvents(OnHeapEvent(u, Head(events)), Tail(events))

\* "if self.highlight_pair and now >= self.highlight_end"; expired: the
\* duration of the highlight has passed (time-based)
HighlightEnd(u, expired) ==
    IF u.highlight_pair # {} /\ expired THEN [u EXCEPT !.highlight_pair = {}] ELSE u

\* "item = self.anim_queue.pop(0)" and what follows: a compare item sets the
\* highlight and leaves current_anim None, any other item becomes the
\* current animation
Dequeued(u, item, rest) ==
    IF item.type = "compare"
    THEN [u EXCEPT !.anim_queue = rest, !.current_anim = NoAnim,
                   !.highlight_pair = {item.e.i, item.e.j}]
    ELSE [u EXCEPT !.anim_queue = rest, !.current_anim = item]

\* the rest of _advance_animation once the highlight was looked at
AdvanceQueue(u, finished) ==
    IF u.current_anim = NoAnim /\ u.anim_queue # <<>>
    THEN Dequeued(u, Head(u.anim_queue), Tail(u.anim_queue))
    ELSE IF u.current_anim # NoAnim /\ finished
    THEN [u EXCEPT !.current_anim = NoAnim]
    ELSE u

\* an _advance_animation that takes the newest item of the queue
AdvanceAnimationNewest(u, finished, expired) ==
    IF u.current_anim = NoAnim /\ u.anim_queue # <<>>
    THEN Dequeued(HighlightEnd(u, expired), u.anim_queue[Len(u.anim_queue)],
                  SubSeq(u.anim_queue, 1, Len(u.anim_queue) - 1))
    ELSE AdvanceQueue(HighlightEnd(u, expired), finished)

\* _advance_animation; finished: the progress of the current animation has
\* reached 1.0 (time-based)
AdvanceAnimation(u, finished, expired) == AdvanceQueue(HighlightEnd(u, expired), finished)

\* draw after next(it) ended as r: the item is appended to sorted_items;
\* StopIteration ends the sorting with the completion message, any other
\* exception with an error message
SortedItem(u, r) ==
    IF r.exc = "StopIteration"
    THEN [u EXCEPT !.destructive_iterating = FALSE, !.iter = FALSE,
                   !.message = "complete"]
    ELSE IF ~Ok(r)
    THEN [OnHeapEvents(u, r.ev) EXCEPT !.destructive_iterating = FALSE,
                                       !.iter = FALSE, !.message = "error"]
    ELSE [OnHeapEvents(u, r.ev) EXCEPT !.iter = TRUE,
                                       !.sorted_items = Append(@, r.ret)]

\* a draw that pops while animations are queued or running
SortingFrameEager(u, h) == u.destructive_iterating /\ Len(h.data) > 0

\* the condition of draw under which next(it) is called
SortingFrame(u, h) ==
    /\ u.destructive_iterating
    /\ u.anim_queue = <<>>
    /\ u.current_anim = NoAnim
    /\ Len(h.data) > 0

\* _show_temp_message; the model keeps the kind of the text: "started",
\* "stopped", "complete", "error" (of the sorting), "pushpop", "replace",
\* "nlargest", "stats", "redraw_error" (a failure of the rendering in draw),
\* and "warn" for the texts of a handler that failed or was refused
ShowTempMessage(u, kind) == [u EXCEPT !.message = kind]

\* Python's min(values): the first element is kept until a later one
\* compares less than it
RECURSIVE PyMin(_, _)
PyMin(cur, rest) ==
    IF rest = <<>> THEN cur
    ELSE PyMin(IF PyLess(Head(rest), cur) THEN Head(rest) ELSE cur, Tail(rest))

\* Python's max(values): the first element is kept until a later one
\* compares greater than it
RECURSIVE PyMax(_, _)
PyMax(cur, rest) ==
    IF rest = <<>> THEN cur
    ELSE PyMax(IF PyLess(cur, Head(rest)) THEN Head(rest) ELSE cur, Tail(rest))

\* _alpha_for_value raises ValueError: vmax == vmin is false and
\* (val - vmin) / (vmax - vmin) is NaN, which int() refuses
AlphaRaises(val, vmin, vmax) == ~PyEq(vmax, vmin) /\ NaN \in {val, vmin, vmax}

\* the positions _draw_bars_surface leaves to the overlay: i, j, dst and
\* index of the payload of the current animation
Excluded(a) ==
    IF a.type = "swap" THEN {a.e.i, a.e.j}
    ELSE IF a.type = "move" THEN {a.e.j}
    ELSE IF a.type = "appear" THEN {a.e.i}
    ELSE {}

\* _draw_bars_surface(values) raises: the alpha of a bar it draws cannot be
\* computed (the calls of pygame are taken to succeed)
DrawBarsRaises(values, a) ==
    /\ values # <<>>
    /\ \E i \in 0..(Len(values) - 1) :
          /\ i \notin Excluded(a)
          /\ AlphaRaises(values[i + 1], PyMin(Head(values), Tail(values)),
                         PyMax(Head(values), Tail(values)))

\* the condition of _redraw_bars_if_needed under which the bars are drawn;
\* before and u are the fields before and after _advance_animation
BarsNeeded(before, u, values) ==
    \/ values = <<>>
    \/ values # u.last_values
    \/ u.current_anim # NoAnim \/ u.anim_queue # <<>> \/ u.highlight_pair # {}
    \/ before.current_anim # u.current_anim
    \/ (before.highlight_pair # {}) # (u.highlight_pair # {})

\* _redraw_bars_if_needed after _advance_animation, as draw sees it: a
\* failure of the drawing is shown as "Bars redraw error: ..." (kind
\* "redraw_error") and leaves the snapshot as it was
BarsRedrawn(before, u, values) ==
    IF BarsNeeded(before, u, values) /\ DrawBarsRaises(values, u.current_anim)
    THEN ShowTempMessage(u, "redraw_error")
    ELSE [u EXCEPT !.last_values = values]

\* draw: one frame; the sorting block, then (in _redraw_bars_if_needed)
\* _advance_animation and the drawing of the bars
UIDraw ==
    \E finished \in BOOLEAN, expired \in {b \in BOOLEAN : b => ui.highlight_pair # {}} :
        IF SortingFrame(ui, Self)
        THEN \E r \in {NextItem(Self)} :
                \E u \in {SortedItem(ui, r)} :
                    \E a \in {AdvanceAnimation(u, finished, expired)} :
                        /\ Effect(PlainCall("draw"), r, UILen, UIOps)
                        /\ ui' = BarsRedrawn(u, a, r.data)
                        /\ UNCHANGED <<scan, gen>>
        ELSE \E a \in {AdvanceAnimation(ui, finished, expired)} :
                /\ ui' = BarsRedrawn(ui, a, data)
                /\ lastcall' = [NoLast EXCEPT !.call = PlainCall("draw")]
                /\ ev' = <<>>
                /\ calls' = <<>>
                /\ UNCHANGED <<data, min_heap, mutating, ops, verify_sr, nan_policy,
                               observer, scan, gen>>

\* a key press or a click whose handler made the call c on the heap, which
\* ended as r and left the UI fields as u
UICall(c, r, u) ==
    /\ Len(ui.anim_queue) <= UIQueue
    /\ Effect(c, r, UILen, UIOps)
    /\ ui' = OnHeapEvents(u, r.ev)
    /\ UNCHANGED <<scan, gen>>

\* "except Exception as e: warn(...)" around the call of a handler
Warned(u, r) == IF Ok(r) THEN u ELSE ShowTempMessage(u, "warn")

\* _run_pushpop and _run_replace after the call on the heap ended as r: the
\* result is shown, a ValueError is passed over in silence, any other
\* exception reaches _run_action, which warns
Shown(u, r, kind) ==
    IF Ok(r) THEN ShowTempMessage(u, kind)
    ELSE IF r.exc = "ValueError" THEN u
    ELSE ShowTempMessage(u, "warn")

\* rand: _run_action("insert_rand"), which warns if push raised; otherwise
\* _insert_from_input with an integer in the input field, where a
\* ValueError of push is passed over and any other exception is swallowed
\* by handle_event
UIInsert ==
    \E v \in 1..MaxVal, rand \in BOOLEAN :
        \E r \in {Push(Self, v)} :
            UICall(Call("push", v, FALSE, <<>>, NoOther), r,
                   IF rand THEN Warned(ui, r) ELSE ui)

\* _run_action("pop"): nothing is done on an empty heap
UIPop ==
    /\ Len(data) > 0
    /\ \E r \in {Pop(Self, None)} : UICall(PlainCall("pop"), r, Warned(ui, r))

\* _run_action("toggle_mode")
UIToggleMode ==
    \E r \in {ToggleMode(Self)} : UICall(PlainCall("toggle_mode"), r, Warned(ui, r))

\* _run_action("pushpop") with an integer in the input field: _run_pushpop
UIPushpop ==
    \E v \in 1..MaxVal :
        \E r \in {Pushpop(Self, v)} :
            UICall(Call("pushpop", v, FALSE, <<>>, NoOther), r, Shown(ui, r, "pushpop"))

\* _run_action("replace") with an integer in the input field: _run_replace
UIReplace ==
    \E v \in 1..MaxVal :
        \E r \in {Replace(Self, v)} :
            UICall(Call("replace", v, FALSE, <<>>, NoOther), r, Shown(ui, r, "replace"))

\* _run_action("nlargest"): _run_nlargest shows nlargest(5), or the error
UINlargest ==
    \E r \in {Nlargest(Self, 5)} :
        UICall(Call("nlargest", 5, FALSE, <<>>, NoOther), r,
               IF Ok(r) THEN ShowTempMessage(ui, "nlargest")
               ELSE ShowTempMessage(ui, "warn"))

\* a handler that reads the heap or nothing at all and shows a text:
\* _run_action("show_stats") shows get_stats(); the keys T and E with an
\* empty input field warn that the input is empty
UIMessage ==
    /\ \E kind \in {"stats", "warn"} : ui' = ShowTempMessage(ui, kind)
    /\ lastcall' = [NoLast EXCEPT !.call = PlainCall("message")]
    /\ ev' = <<>>
    /\ calls' = <<>>
    /\ UNCHANGED <<data, min_heap, mutating, ops, verify_sr, nan_policy, observer,
                   scan, gen>>

\* _run_action("reset") after clear() ended as r: if clear() raised, the
\* fallback empties heap.data itself, outside the guard and with no event
ResetCleared(r) == IF Ok(r) THEN r ELSE [r EXCEPT !.data = <<>>]

\* _run_action("reset"): a clear() that raised is warned about
UIReset ==
    \E r \in {Clear(Self)} :
        UICall(PlainCall("clear"), ResetCleared(r),
               [Warned(ui, r) EXCEPT !.destructive_iterating = FALSE,
                                     !.sorted_items = <<>>])

\* _run_sort_all, reached by the key S whatever the heap holds
UISortAll ==
    /\ ui' = IF ui.destructive_iterating
             THEN [ui EXCEPT !.destructive_iterating = FALSE, !.message = "stopped"]
             ELSE [ui EXCEPT !.destructive_iterating = TRUE, !.sorted_items = <<>>,
                             !.message = "started"]
    /\ lastcall' = [NoLast EXCEPT !.call = PlainCall("sort_all")]
    /\ ev' = <<>>
    /\ calls' = <<>>
    /\ UNCHANGED <<data, min_heap, mutating, ops, verify_sr, nan_policy, observer, scan, gen>>

\* main: Heap(min_heap=True) and UI(screen, heap), whose __init__ sets the
\* observer of the heap to _on_heap_event (it records, never raises and
\* never calls the heap)
InitUI ==
    /\ New({LogObserver}, {0})
    /\ min_heap = TRUE
    /\ nan_policy = "raise"

NextUI ==
    \/ UIInsert
    \/ UIPop
    \/ UIToggleMode
    \/ UIPushpop
    \/ UIReplace
    \/ UINlargest
    \/ UIMessage
    \/ UIReset
    \/ UISortAll
    \/ UIDraw

SpecUI == InitUI /\ [][NextUI]_vars

\* C38 as stated: while destructive sorting is active, an element is popped
\* from the heap only by a frame that starts with the animation queue empty
\* and no animation current.
C38_Original ==
    [][(/\ ui.destructive_iterating
        /\ lastcall'.call.op \in {"pop", "draw"}
        /\ Len(data') = Len(data) - 1) =>
            /\ lastcall'.call.op = "draw"
            /\ ui.anim_queue = <<>>
            /\ ui.current_anim = NoAnim]_vars

\* C38: a frame of draw changes storage only if destructive sorting is
\* active, the animation queue is empty and no animation is current when the
\* frame starts; the frame then pops exactly the root into sorted_items, so
\* nothing of an earlier pop of the sorting is still queued or running when
\* the sorting pops again. A pop the user makes leaves sorted_items as it
\* was, and is made whatever the queue holds.
C38_PopsOnlyWhenIdle ==
    [][/\ (lastcall'.call.op = "draw" /\ data' # data) =>
              /\ ui.destructive_iterating
              /\ ui.anim_queue = <<>>
              /\ ui.current_anim = NoAnim
              /\ Len(data') = Len(data) - 1
              /\ ui'.sorted_items = Append(ui.sorted_items, data[1])
       /\ lastcall'.call.op = "pop" =>
              /\ ui'.sorted_items = ui.sorted_items
              /\ ui'.destructive_iterating = ui.destructive_iterating]_vars

\* a frame has just popped the second element of a sorting and has made the
\* first event of that pop the current animation
C38_Witness ==
    /\ lastcall.call.op = "draw"
    /\ ui.destructive_iterating
    /\ Len(ui.sorted_items) >= 2
    /\ lastcall.ret = ui.sorted_items[Len(ui.sorted_items)]
    /\ ev # <<>>
    /\ ui.current_anim.type = "move"

\* ------------- SpecQueue: the handlers of the UI, and the observer called
\* with events the heap of this repository does not send
\* the events given to _on_heap_event directly: compare events (the heap
\* sends none, the mapping has a case for them) and an event of a name
\* outside the mapping
DirectEvents ==
    {Ev("compare", 0, 1, None, None), Ev("compare", 1, 2, None, None),
     Ev("verify", None, None, None, None)}

\* _on_heap_event called with the event e
UIHeapEvent ==
    /\ Len(ui.anim_queue) <= UIQueue
    /\ \E e \in DirectEvents :
          /\ ui' = OnHeapEvent(ui, e)
          /\ ev' = <<e>>
    /\ lastcall' = [NoLast EXCEPT !.call = PlainCall("on_heap_event")]
    /\ calls' = <<>>
    /\ UNCHANGED <<data, min_heap, mutating, ops, verify_sr, nan_policy, observer,
                   scan, gen>>

\* the user acts on the heap while _ops is below its bound
QueueInsert == ops < QueueOps /\ UIInsert

QueuePop == ops < QueueOps /\ UIPop

QueueToggleMode == ops < QueueOps /\ UIToggleMode

QueuePushpop == ops < QueueOps /\ UIPushpop

QueueReplace == ops < QueueOps /\ UIReplace

QueueNlargest == ops < QueueOps /\ UINlargest

QueueReset == ops < QueueOps /\ UIReset

NextQueue ==
    \/ QueueInsert
    \/ QueuePop
    \/ QueueToggleMode
    \/ QueuePushpop
    \/ QueueReplace
    \/ QueueNlargest
    \/ QueueReset
    \/ UIMessage
    \/ UISortAll
    \/ UIHeapEvent
    \/ UIDraw

SpecQueue == InitUI /\ [][NextQueue]_vars

\* the payloads of the queue, in queue order
Payloads(q) == [k \in 1..Len(q) |-> q[k].e]

\* the events of e that _on_heap_event puts into the queue
Enqueued(e) == SelectSeq(e, LAMBDA x : x.name \in Animated)

\* the frame took the event e from the queue: a compare is shown as the
\* highlight of its two positions, any other event is the current animation
Taken(u, e) ==
    IF e.name = "compare"
    THEN u.current_anim = NoAnim /\ u.highlight_pair = {e.i, e.j}
    ELSE u.current_anim = Anim(VisualType(e.name), e)

\* C39: the compare, swap, move and insert events the UI receives are
\* appended to the queue in the order received, and nothing else is; an
\* item leaves the queue only from the front, only in a frame, and only when
\* no animation is current: it becomes the current animation, or the
\* highlight if it is a compare.
C39_QueueIsFifo ==
    /\ [][\/ /\ Payloads(ui'.anim_queue) = Payloads(ui.anim_queue) \o Enqueued(ev')
              /\ ui'.current_anim \in {ui.current_anim, NoAnim}
           \/ /\ lastcall'.call.op = "draw"
              /\ ui.current_anim = NoAnim
              /\ <<Head(Payloads(ui.anim_queue) \o Enqueued(ev'))>> \o Payloads(ui'.anim_queue)
                    = Payloads(ui.anim_queue) \o Enqueued(ev')
              /\ Taken(ui', Head(Payloads(ui.anim_queue) \o Enqueued(ev')))]_vars
    /\ [](\A k \in 1..Len(ui.anim_queue) :
              /\ ui.anim_queue[k].e.name \in Animated
              /\ ui.anim_queue[k].type = VisualType(ui.anim_queue[k].e.name))

\* a frame took a compare from the front of the queue and highlighted its
\* positions; the insert and swap events of two pushes received after it
\* are still waiting, in the order received
C39_Witness ==
    /\ lastcall.call.op = "draw"
    /\ ui.current_anim = NoAnim
    /\ ui.highlight_pair = {0, 1}
    /\ Len(ui.anim_queue) = 3
    /\ ui.anim_queue[1].type = "appear"
    /\ ui.anim_queue[2].type = "appear"
    /\ ui.anim_queue[3].type = "swap"

\* ------------- SpecSortAll: Sort All left to run; frames keep coming
\* the user acts on the heap while no sorting is active, or after the
\* sorting has popped every element (and _ops is below its bound)
Quiet ==
    /\ ~ui.destructive_iterating \/ data = <<>>
    /\ ops < SortAllOps

SortInsert == Quiet /\ UIInsert

SortPop == Quiet /\ UIPop

SortToggleMode == Quiet /\ UIToggleMode

SortPushpop == Quiet /\ UIPushpop

SortReplace == Quiet /\ UIReplace

SortNlargest == Quiet /\ UINlargest

SortMessage == Quiet /\ UIMessage

SortReset == Quiet /\ UIReset

\* the Sort All button or the key S, pressed to start a sorting
SortStart ==
    /\ ~ui.destructive_iterating
    /\ UISortAll

NextSortAll ==
    \/ SortInsert
    \/ SortPop
    \/ SortToggleMode
    \/ SortPushpop
    \/ SortReplace
    \/ SortNlargest
    \/ SortMessage
    \/ SortReset
    \/ SortStart
    \/ UIDraw

\* the main loop draws a frame in every iteration, and an animation ends
\* when its duration has passed
SpecSortAll ==
    /\ InitUI
    /\ [][NextSortAll]_vars
    /\ WF_vars(UIDraw)

\* C37: a sorting started on a non-empty heap and left to run pops every
\* element and then ends: destructive_iterating becomes false and the
\* completion message is shown.
C37_SortingCompletes ==
    (ui.destructive_iterating /\ data # <<>>)
        ~> (~ui.destructive_iterating /\ data = <<>> /\ ui.message = "complete")

====
